---- MODULE Spec2Model ----
(***************************************************************************)
(* Floating-Basketballs: the PhysicsSimulator of physics.js.               *)
(*                                                                         *)
(* JavaScript Numbers are modelled in fixed point: a scalar is an integer  *)
(* count of 1/ONE units (ONE units = 1.0), products and quotients are      *)
(* rounded to the nearest unit, Math.sqrt is the integer square root of    *)
(* the exact sum of squares, and a unit vector d/dist is kept as the       *)
(* rational it is (every product with it is one rounded multiply-divide).  *)
(* NaN is the vector NaN3: a comparison with it is false, an operation on  *)
(* it gives it, as in IEEE arithmetic.                                     *)
(*                                                                         *)
(* The resolution is 1/ONE: a threshold of the code that a double crosses  *)
(* by less than that is not resolved.  The injected inputs keep away from  *)
(* such states (a colliding pair pressed against the viewer's sphere       *)
(* converges onto the thresholds geometrically); on every transition they  *)
(* reach, the model agrees with double arithmetic to 3/ONE.                *)
(***************************************************************************)
EXTENDS Integers, Sequences, FiniteSets, TLC

VARIABLES
    BALL_RADIUS,     \* this.BALL_RADIUS, fixed at construction
    particles,       \* this.particles: sequence of [position, velocity, rotation, rotVel]
    collidingPairs,  \* this.collidingPairs: sequence of <<i, j>> index pairs
    camera,          \* the cameraPosition argument of the last step() call
    calls,           \* number of step() calls made so far
    start,           \* history: this.particles right after construction/injection
    prev,            \* history: this.particles when the last step() call began
    cameraFixed,     \* history: every step() call so far got the same cameraPosition
    totalKE,         \* history: totalKE accumulated in sub-step 0 of the last call
    diffused,        \* history: number of Pass-4 pushes applied by the last call
    particles2,      \* a second simulator's this.particles (twin runs only)
    collidingPairs2, \* a second simulator's this.collidingPairs (twin runs only)
    stale,           \* history: the collidingPairs the second simulator started with
    meshBuf,         \* the textured InstancedMesh's instanceMatrix: [matrix, needsUpdate]
    primBuf,         \* the wireframe InstancedMesh's instanceMatrix: [matrix, needsUpdate]
    updates,         \* number of updateInstances() calls made so far
    meshRef,         \* meshRef.current is not null (as of the last updateInstances call)
    primRef,         \* primRef.current is not null (as of the last updateInstances call)
    pc,              \* constructor: "for" (loop head), "do" (sampling a body), "done"
    countArg,        \* constructor: the count argument, this.count
    attempts,        \* initParticles: attempts, the draws made for the current body
    posDrawn,        \* initParticles: pos, the last candidate drawn
    exhausted,       \* history: indices of the bodies accepted by the attempt cap
    viewer,          \* state.camera.position, in world space
    frames,          \* number of rendered frames (useFrame callbacks run) so far
    isLowPower,      \* App state: performance mode
    isPrimitive,     \* App state: wireframe mode
    effects,         \* App state: effect name -> enabled
    effectIdx,       \* App state: position in the O-key cycle
    showEffectsHUD,  \* App state: the effects HUD is shown
    isDarkMode,      \* App state: the theme
    themeOverride,   \* App state: the user has pressed L
    mqMatches,       \* the OS colour scheme is dark: matchMedia(...).matches
    mqListening,     \* the media-query change handler of the theme effect is registered
    lastEvent,       \* history: the last event the App handled
    oPresses,        \* history: number of O presses so far
    lPressed,        \* history: L has been pressed
    solverLog,       \* history: per sub-step of the last step() call, the pairs that
                     \* Pass 1 found touching (hit), the cache Pass 2 ran on (cached),
                     \* the pairs Pass 2 corrected (fixed), the pairs outside the
                     \* cache that overlapped at the start of a Pass-2 iteration (missed)
                     \* and the passes in the order they began (passes)
    applied          \* history: the single operations of the passes applied one by one
                     \* (pass harness only): [kind, i, j, cache], cache being
                     \* collidingPairs before the operation

renderVars == <<meshBuf, primBuf, updates, meshRef, primRef>>

ctorVars == <<pc, countArg, attempts, posDrawn, exhausted>>

frameVars == <<viewer, frames>>

appVars == <<isLowPower, isPrimitive, effects, effectIdx, showEffectsHUD, isDarkMode,
             themeOverride, mqMatches, mqListening, lastEvent, oPresses, lPressed>>

vars == <<BALL_RADIUS, particles, collidingPairs, camera, calls, start, prev,
          cameraFixed, totalKE, diffused, particles2, collidingPairs2, stale,
          renderVars, ctorVars, frameVars, appVars, solverLog, applied>>

----------------------------------------------------------------------------
(* Number model *)

\* 1.0 in fixed-point units
ONE == 1000000

\* largest machine integer of the checker; products are split to stay below it
MaxInt == 2147483647

\* limb base of the exact (wide) squares: a wide number <<hi, lo>> is hi * Limb + lo
Limb == 100000000

HalfLimb == 10000

Abs(a) == IF a < 0 THEN -a ELSE a

Sgn(a) == IF a < 0 THEN -1 ELSE IF a > 0 THEN 1 ELSE 0

Max(a, b) == IF a >= b THEN a ELSE b

Min(a, b) == IF a <= b THEN a ELSE b

\* <<quotient, remainder>> of a * b by c, for 0 <= a < c, b >= 0 and
\* 0 < c <= MaxInt \div 15, by shift-and-add on the octal digits of b so that no
\* intermediate exceeds 15 * c
RECURSIVE QuotRem(_, _, _)
QuotRem(a, b, c) ==
    IF b = 0 THEN <<0, 0>>
    ELSE IF a <= MaxInt \div b THEN <<(a * b) \div c, (a * b) % c>>
    ELSE LET h == QuotRem(a, b \div 8, c)
             r == 8 * h[2] + (b % 8) * a
         IN  <<8 * h[1] + r \div c, r % c>>

\* a * b / c rounded to the nearest integer (half away from zero), c > 0
MulDiv(a, b, c) ==
    LET lo == Min(Abs(a), Abs(b))
        hi == Max(Abs(a), Abs(b))
        qr == QuotRem(hi % c, lo, c)
        q  == (hi \div c) * lo + qr[1] + (IF 2 * qr[2] >= c THEN 1 ELSE 0)
    IN  Sgn(a) * Sgn(b) * q

\* x * y for fixed-point x, y
Mul(x, y) == MulDiv(x, y, ONE)

\* x / y for fixed-point x and y # 0
Div(x, y) == Sgn(y) * MulDiv(x, ONE, Abs(y))

\* the exact square of a scalar, as a wide number (units of 1/ONE^2)
WSq(x) ==
    LET a  == Abs(x) \div HalfLimb
        b  == Abs(x) % HalfLimb
        m  == 2 * a * b
        l0 == (m % HalfLimb) * HalfLimb + b * b
    IN  <<a * a + m \div HalfLimb + l0 \div Limb, l0 % Limb>>

WAdd(u, v) == <<u[1] + v[1] + (u[2] + v[2]) \div Limb, (u[2] + v[2]) % Limb>>

WLt(u, v) == u[1] < v[1] \/ (u[1] = v[1] /\ u[2] < v[2])

WLe(u, v) == ~WLt(v, u)

\* a wide number (units 1/ONE^2) as a fixed-point scalar (units 1/ONE), truncated
WToFixed(u) == u[1] * (Limb \div ONE) + u[2] \div ONE

\* weight of the leading hexadecimal digit of a square root: 16^6
SqrtTop == 16777216

\* r, a multiple of 16 * w with r * r <= u < (r + 16 * w)^2, extended by the
\* hexadecimal digit of weight w
SqrtDigit(u, r, w) ==
    r + w * (CHOOSE d \in 0..15 :
                 /\ WLe(WSq(r + d * w), u)
                 /\ (d = 15 \/ WLt(u, WSq(r + (d + 1) * w))))

\* the largest multiple r of w with r * r <= u
RECURSIVE SqrtTo(_, _)
SqrtTo(u, w) == IF w > SqrtTop THEN 0 ELSE SqrtDigit(u, SqrtTo(u, 16 * w), w)

\* Math.sqrt of a wide number below 2^56: the largest r with r * r <= u
Sqrt(u) == SqrtTo(u, 1)

----------------------------------------------------------------------------
(* THREE.Vector3 *)

\* the NaN vector: x, y and z are NaN together wherever the simulator makes one
NaN3 == <<MaxInt, MaxInt, MaxInt>>

IsNaN(v) == v = NaN3

Zero3 == <<0, 0, 0>>

VAdd(u, v) == <<u[1] + v[1], u[2] + v[2], u[3] + v[3]>>

VSub(u, v) == <<u[1] - v[1], u[2] - v[2], u[3] - v[3]>>

\* Vector3.lengthSq / distanceToSquared, exact
LengthSq(v) == WAdd(WAdd(WSq(v[1]), WSq(v[2])), WSq(v[3]))

\* Vector3.distanceToSquared, exact
DistSqOf(u, v) == LengthSq(VSub(u, v))

\* v * (num / den) componentwise, den > 0
VScale(v, num, den) == <<MulDiv(v[1], num, den), MulDiv(v[2], num, den), MulDiv(v[3], num, den)>>

\* (d / dist) * s: the unit vector of d (whose length is dist) times the scalar s
NTimes(d, dist, s) == VScale(d, s, dist)

\* v . (d / dist): the component of v along the unit vector of d
NDot(v, d, dist) == MulDiv(v[1], d[1], dist) + MulDiv(v[2], d[2], dist) + MulDiv(v[3], d[3], dist)

----------------------------------------------------------------------------
(* Constants of physics.js *)

DEFAULT_BALL_RADIUS == (35 * ONE) \div 10

BOUNDARY_RADIUS == 40 * ONE

SUB_STEPS == 2

SOLVER_ITERATIONS == 6

CAMERA_SAFE_RADIUS == 12 * ONE

\* 1 + RESTITUTION, RESTITUTION = 0.85
OnePlusRestitution == ONE + (85 * ONE) \div 100

(* Derived constants of the constructor *)

AURA_RADIUS == MulDiv(BALL_RADIUS, 25, 10)

AURA_RADIUS_SQ == WSq(AURA_RADIUS)

MIN_DIST == BALL_RADIUS * 2 + (5 * ONE) \div 100

MIN_DIST_SQ == WSq(MIN_DIST)

\* Math.pow(0.99, 1 / SUB_STEPS) = 0.99498743710662
dampingFactor == 994987

maxSpeed == ((4 * ONE) \div 10) \div SUB_STEPS

maxSpeedSq == WSq(maxSpeed)

edgeDist == BOUNDARY_RADIUS - BALL_RADIUS

edgeDistSq == WSq(edgeDist)

cameraSafeRadiusSq == WSq(CAMERA_SAFE_RADIUS)

\* the literal 0.000001 the pair loops compare distSq with, in units of 1/ONE^2
CoincidentSq == <<0, (ONE \div 1000) * (ONE \div 1000)>>

ENERGY_THRESHOLD == (5 * ONE) \div 100

\* ENERGY_THRESHOLD as a wide number, for comparison with a sum of squares
EnergyThresholdW == <<ENERGY_THRESHOLD \div (Limb \div ONE), 0>>

\* a NaN totalKE
WNaN == <<-1, 0>>

count == Len(particles)

----------------------------------------------------------------------------
(* PhysicsSimulator.step *)

\* u + v where u may already be NaN
VAddN(u, v) == IF IsNaN(u) THEN NaN3 ELSE VAdd(u, v)

\* totalKE += velocity.lengthSq()
KEAdd(ke, velocity) ==
    IF ke = WNaN \/ IsNaN(velocity) THEN WNaN ELSE WAdd(ke, LengthSq(velocity))

\* variant of HardCollision that corrects the positions but applies no impulse
HardCollisionNoImpulse(ps, i, j, d, dist) ==
    LET shift == NTimes(d, dist, Mul(MIN_DIST - dist, (55 * ONE) \div 100))
    IN  [ps EXCEPT ![i].position = VAdd(@, shift),
                   ![j].position = VSub(@, shift)]

\* variant of HardCollision whose impulse has no floor
HardCollisionNoFloor(ps, i, j, d, dist) ==
    LET p          == ps[i]
        p2         == ps[j]
        correction == Mul(MIN_DIST - dist, (55 * ONE) \div 100)
        shift      == NTimes(d, dist, correction)
        anyNaN     == IsNaN(p.velocity) \/ IsNaN(p2.velocity)
        relVel     == NDot(p.velocity, d, dist) - NDot(p2.velocity, d, dist)
        impulse    == Mul(Mul(-relVel, OnePlusRestitution), ONE \div 2)
        kick       == NTimes(d, dist, impulse)
        closing    == ~anyNaN /\ relVel < 0
    IN  [ps EXCEPT
            ![i] = [p EXCEPT !.position = VAdd(p.position, shift),
                             !.velocity = IF closing THEN VAdd(p.velocity, kick) ELSE @],
            ![j] = [p2 EXCEPT !.position = VSub(p2.position, shift),
                              !.velocity = IF closing THEN VSub(p2.velocity, kick) ELSE @]]

\* variant of HardCollision that corrects by 50% each way: no over-correction
HardCollisionHalf(ps, i, j, d, dist) ==
    LET p          == ps[i]
        p2         == ps[j]
        correction == Mul(MIN_DIST - dist, (50 * ONE) \div 100)
        shift      == NTimes(d, dist, correction)
        anyNaN     == IsNaN(p.velocity) \/ IsNaN(p2.velocity)
        relVel     == NDot(p.velocity, d, dist) - NDot(p2.velocity, d, dist)
        impulse    == Mul(Max(((5 * ONE) \div 1000) \div SUB_STEPS,
                              Mul(-relVel, OnePlusRestitution)), ONE \div 2)
        kick       == NTimes(d, dist, impulse)
        closing    == ~anyNaN /\ relVel < 0
    IN  [ps EXCEPT
            ![i] = [p EXCEPT !.position = VAdd(p.position, shift),
                             !.velocity = IF closing THEN VAdd(p.velocity, kick) ELSE @],
            ![j] = [p2 EXCEPT !.position = VSub(p2.position, shift),
                              !.velocity = IF closing THEN VSub(p2.velocity, kick) ELSE @]]

\* Hard collision of the pair (i, j) at separation d = p.position - p2.position,
\* |d| = dist: 55% correction each way, then the impulse when closing
HardCollision(ps, i, j, d, dist) ==
    LET p          == ps[i]
        p2         == ps[j]
        correction == Mul(MIN_DIST - dist, (55 * ONE) \div 100)
        shift      == NTimes(d, dist, correction)
        anyNaN     == IsNaN(p.velocity) \/ IsNaN(p2.velocity)
        relVel     == NDot(p.velocity, d, dist) - NDot(p2.velocity, d, dist)
        impulse    == Mul(Max(((5 * ONE) \div 1000) \div SUB_STEPS,
                              Mul(-relVel, OnePlusRestitution)), ONE \div 2)
        kick       == NTimes(d, dist, impulse)
        closing    == ~anyNaN /\ relVel < 0
    IN  [ps EXCEPT
            ![i] = [p EXCEPT !.position = VAdd(p.position, shift),
                             !.velocity = IF closing THEN VAdd(p.velocity, kick) ELSE @],
            ![j] = [p2 EXCEPT !.position = VSub(p2.position, shift),
                              !.velocity = IF closing THEN VSub(p2.velocity, kick) ELSE @]]

\* variant of SoftAura that pushes the first body of the pair only
SoftAuraOneSided(ps, i, j, d, dist) ==
    LET t         == Div(AURA_RADIUS - dist, AURA_RADIUS)
        pushForce == Mul(Mul(t, t), ONE \div 100) \div SUB_STEPS
        push      == NTimes(d, dist, pushForce)
    IN  [ps EXCEPT ![i].velocity = VAddN(@, push)]

\* Soft aura push of the pair (i, j)
SoftAura(ps, i, j, d, dist) ==
    LET t         == Div(AURA_RADIUS - dist, AURA_RADIUS)
        pushForce == Mul(Mul(t, t), ONE \div 100) \div SUB_STEPS
        push      == NTimes(d, dist, pushForce)
    IN  [ps EXCEPT ![i].velocity = VAddN(@, push),
                   ![j].velocity = VAddN(@, <<-push[1], -push[2], -push[3]>>)]

\* variant of Pass1Pair that skips a pair only when its distance is exactly 0
Pass1PairZeroOnly(st, i, j) ==
    LET p  == st.p[i]
        p2 == st.p[j]
    IN  IF IsNaN(p.position) \/ IsNaN(p2.position)
        THEN [st EXCEPT !.p[i].velocity = NaN3, !.p[j].velocity = NaN3]
        ELSE LET d      == VSub(p.position, p2.position)
                 distSq == LengthSq(d)
             IN  IF WLe(AURA_RADIUS_SQ, distSq) \/ distSq = <<0, 0>>
                 THEN st
                 ELSE LET dist == Sqrt(distSq)
                      IN  IF dist < MIN_DIST
                          THEN [st EXCEPT !.cp = Append(@, <<i, j>>),
                                          !.p = HardCollision(@, i, j, d, dist),
                                          !.hit = @ \cup {<<i, j>>}]
                          ELSE [st EXCEPT !.p = SoftAura(@, i, j, d, dist)]

\* variant of Pass1Pair that caches every pair inside the aura, touching or not
Pass1PairCachesAura(st, i, j) ==
    LET p  == st.p[i]
        p2 == st.p[j]
    IN  IF IsNaN(p.position) \/ IsNaN(p2.position)
        THEN [st EXCEPT !.p[i].velocity = NaN3, !.p[j].velocity = NaN3]
        ELSE LET d      == VSub(p.position, p2.position)
                 distSq == LengthSq(d)
             IN  IF WLe(AURA_RADIUS_SQ, distSq) \/ WLt(distSq, CoincidentSq)
                 THEN st
                 ELSE LET dist == Sqrt(distSq)
                      IN  IF dist < MIN_DIST
                          THEN [st EXCEPT !.cp = Append(@, <<i, j>>),
                                          !.p = HardCollision(@, i, j, d, dist),
                                          !.hit = @ \cup {<<i, j>>}]
                          ELSE [st EXCEPT !.cp = Append(@, <<i, j>>),
                                          !.p = SoftAura(@, i, j, d, dist)]

\* Pass 1, one pair (i, j), i < j.  st = [p |-> particles, cp |-> collidingPairs, ...]
Pass1Pair(st, i, j) ==
    LET p  == st.p[i]
        p2 == st.p[j]
    IN  IF IsNaN(p.position) \/ IsNaN(p2.position)
        THEN \* distSq is NaN: neither skip test nor dist < MIN_DIST is true, so
             \* the aura branch runs and adds NaN to both velocities
             [st EXCEPT !.p[i].velocity = NaN3, !.p[j].velocity = NaN3]
        ELSE LET d      == VSub(p.position, p2.position)
                 distSq == LengthSq(d)
             IN  IF WLe(AURA_RADIUS_SQ, distSq) \/ WLt(distSq, CoincidentSq)
                 THEN st
                 ELSE LET dist == Sqrt(distSq)
                      IN  IF dist < MIN_DIST
                          THEN [st EXCEPT !.cp = Append(@, <<i, j>>),
                                          !.p = HardCollision(@, i, j, d, dist),
                                          !.hit = @ \cup {<<i, j>>}]
                          ELSE [st EXCEPT !.p = SoftAura(@, i, j, d, dist)]

\* variant of Boundary that clamps to BOUNDARY_RADIUS instead of edgeDist
BoundaryAtRadius(p) ==
    IF IsNaN(p.position) \/ ~WLt(edgeDistSq, LengthSq(p.position)) THEN p
    ELSE [p EXCEPT !.position = VScale(@, BOUNDARY_RADIUS, Sqrt(LengthSq(p.position)))]

\* variant of Boundary that reflects the outward velocity elastically (factor 2)
BoundaryElastic(p) ==
    IF IsNaN(p.position) THEN p
    ELSE LET distFromCenterSq == LengthSq(p.position)
         IN  IF ~WLt(edgeDistSq, distFromCenterSq) THEN p
             ELSE LET distFromCenter == Sqrt(distFromCenterSq)
                      dot == IF IsNaN(p.velocity) THEN 0
                             ELSE NDot(p.velocity, p.position, distFromCenter)
                      back == NTimes(p.position, distFromCenter, Mul(dot, (20 * ONE) \div 10))
                  IN  [p EXCEPT
                          !.velocity = IF dot > 0 THEN VSub(@, back) ELSE @,
                          !.position = VScale(@, edgeDist, distFromCenter)]

\* Boundary containment of one body
Boundary(p) ==
    IF IsNaN(p.position) THEN p
    ELSE LET distFromCenterSq == LengthSq(p.position)
         IN  IF ~WLt(edgeDistSq, distFromCenterSq) THEN p
             ELSE LET distFromCenter == Sqrt(distFromCenterSq)
                      dot == IF IsNaN(p.velocity) THEN 0
                             ELSE NDot(p.velocity, p.position, distFromCenter)
                      back == NTimes(p.position, distFromCenter, Mul(dot, (18 * ONE) \div 10))
                  IN  [p EXCEPT
                          !.velocity = IF dot > 0 THEN VSub(@, back) ELSE @,
                          !.position = VScale(@, edgeDist, distFromCenter)]

\* variant of CameraForcefield that cancels a closing velocity (factor 1) instead
\* of reversing it
CameraForcefieldCancel(p, c) ==
    IF IsNaN(p.position) THEN p
    ELSE LET cd          == VSub(p.position, c)
             distToCamSq == LengthSq(cd)
         IN  IF ~WLt(distToCamSq, cameraSafeRadiusSq) THEN p
             ELSE LET distToCam == Sqrt(distToCamSq)
                  IN  IF distToCam = 0
                      THEN [p EXCEPT !.position = NaN3, !.velocity = NaN3]
                      ELSE LET correction == CAMERA_SAFE_RADIUS - distToCam
                               dot == IF IsNaN(p.velocity) THEN 0
                                      ELSE NDot(p.velocity, cd, distToCam)
                               v1 == IF dot < 0
                                     THEN VSub(p.velocity, NTimes(cd, distToCam, dot))
                                     ELSE p.velocity
                           IN  [p EXCEPT
                                   !.position = VAdd(@, NTimes(cd, distToCam, correction)),
                                   !.velocity = VAddN(v1, NTimes(cd, distToCam, (5 * ONE) \div 100))]

\* Camera forcefield on one body; c = <<cx, cy, cz>>
CameraForcefield(p, c) ==
    IF IsNaN(p.position) THEN p
    ELSE LET cd          == VSub(p.position, c)
             distToCamSq == LengthSq(cd)
         IN  IF ~WLt(distToCamSq, cameraSafeRadiusSq) THEN p
             ELSE LET distToCam == Sqrt(distToCamSq)
                  IN  IF distToCam = 0
                      THEN \* invDist = 1.0 / 0 = Infinity and cdx * invDist = 0 * Infinity = NaN
                           [p EXCEPT !.position = NaN3, !.velocity = NaN3]
                      ELSE LET correction == CAMERA_SAFE_RADIUS - distToCam
                               dot == IF IsNaN(p.velocity) THEN 0
                                      ELSE NDot(p.velocity, cd, distToCam)
                               v1 == IF dot < 0
                                     THEN VSub(p.velocity,
                                               NTimes(cd, distToCam, Mul(dot, (15 * ONE) \div 10)))
                                     ELSE p.velocity
                           IN  [p EXCEPT
                                   !.position = VAdd(@, NTimes(cd, distToCam, correction)),
                                   !.velocity = VAddN(v1, NTimes(cd, distToCam, (5 * ONE) \div 100))]

RECURSIVE Pass1Inner(_, _, _)
Pass1Inner(st, i, j) ==
    IF j > Len(st.p) THEN st ELSE Pass1Inner(Pass1Pair(st, i, j), i, j + 1)

\* PASS 1: bodies i..count in order: totalKE (sub-step 0 only), the pairs
\* (i, j > i), then boundary and camera forcefield of body i
RECURSIVE Pass1(_, _, _)
Pass1(st, i, c) ==
    IF i > Len(st.p) THEN st
    ELSE LET s1 == [st EXCEPT !.ke = IF st.step = 0 THEN KEAdd(@, st.p[i].velocity) ELSE @]
             s2 == Pass1Inner(s1, i, i + 1)
             s3 == [s2 EXCEPT !.p[i] = CameraForcefield(Boundary(@), c)]
         IN  Pass1(s3, i + 1, c)

\* the pairs (i, j), i < j, of finite bodies closer than MIN_DIST and not coincident
Overlapping(ps) ==
    {pr \in (1..Len(ps)) \X (1..Len(ps)) :
        /\ pr[1] < pr[2]
        /\ ~IsNaN(ps[pr[1]].position)
        /\ ~IsNaN(ps[pr[2]].position)
        /\ WLt(DistSqOf(ps[pr[1]].position, ps[pr[2]].position), MIN_DIST_SQ)
        /\ WLt(CoincidentSq, DistSqOf(ps[pr[1]].position, ps[pr[2]].position))}

\* variant of Pass2Pairs that re-tests every pair (i, j), i < j, cached or not
ResolveAny(st, i, j) ==
    IF <<i, j>> \in Overlapping(st.p)
    THEN [st EXCEPT !.p = HardCollision(@, i, j, VSub(st.p[i].position, st.p[j].position),
                                        Sqrt(DistSqOf(st.p[i].position, st.p[j].position))),
                    !.fixed = @ \cup {<<i, j>>}]
    ELSE st

RECURSIVE AllPairsFrom(_, _, _)
AllPairsFrom(st, i, j) ==
    IF i > Len(st.p) THEN st
    ELSE IF j > Len(st.p) THEN AllPairsFrom(st, i + 1, i + 2)
    ELSE AllPairsFrom(ResolveAny(st, i, j), i, j + 1)

Pass2PairsAll(st, k) == IF k > 1 THEN st ELSE AllPairsFrom(st, 1, 2)

\* PASS 2, the cached pairs from index k on
RECURSIVE Pass2Pairs(_, _)
Pass2Pairs(st, k) ==
    IF k > Len(st.cp) THEN st
    ELSE LET i  == st.cp[k][1]
             j  == st.cp[k][2]
             p  == st.p[i]
             p2 == st.p[j]
             d  == VSub(p.position, p2.position)
             distSq == LengthSq(d)
             touching == /\ ~IsNaN(p.position)
                         /\ ~IsNaN(p2.position)
                         /\ WLt(distSq, MIN_DIST_SQ)
                         /\ WLt(CoincidentSq, distSq)
         IN  Pass2Pairs(IF touching
                        THEN [st EXCEPT !.p = HardCollision(@, i, j, d, Sqrt(distSq)),
                                        !.fixed = @ \cup {<<i, j>>}]
                        ELSE st,
                        k + 1)

\* PASS 2, re-enforce boundary and camera forcefield for the bodies i..count
RECURSIVE Constraints(_, _, _)
Constraints(ps, i, c) ==
    IF i > Len(ps) THEN ps
    ELSE Constraints([ps EXCEPT ![i] = CameraForcefield(Boundary(@), c)], i + 1, c)

\* history: a pass of the sub-step begins
Entered(st, pass) == [st EXCEPT !.passes = Append(@, pass)]

\* history: at the start of a Pass-2 iteration, the overlapping pairs that are not
\* in the cache
Noted(st) ==
    [st EXCEPT !.missed = @ \cup (Overlapping(st.p) \ {st.cp[k] : k \in 1..Len(st.cp)}),
               !.passes = Append(@, "P2")]

\* variant of Pass2 whose loop runs while iter <= SOLVER_ITERATIONS
RECURSIVE Pass2Inclusive(_, _)
Pass2Inclusive(st, c) ==
    IF st.iter > SOLVER_ITERATIONS THEN st
    ELSE Pass2Inclusive([Pass2Pairs(Noted(st), 1)
                            EXCEPT !.p = Constraints(@, 1, c), !.iter = @ + 1], c)

\* PASS 2: iterations st.iter..SOLVER_ITERATIONS - 1
RECURSIVE Pass2(_, _)
Pass2(st, c) ==
    IF st.iter >= SOLVER_ITERATIONS THEN st
    ELSE Pass2([Pass2Pairs(Noted(st), 1) EXCEPT !.p = Constraints(@, 1, c), !.iter = @ + 1], c)

\* Vector3.setLength(l) of a vector longer than maxSpeed: normalize, then scale
SetLength(v, l) == VScale(v, l, Sqrt(LengthSq(v)))

\* variant of Integrate that also advances the rotation by rotVel
IntegrateAndSpin(p) ==
    IF IsNaN(p.velocity) THEN [p EXCEPT !.position = NaN3, !.rotation = VAdd(@, p.rotVel)]
    ELSE LET damped  == VScale(p.velocity, dampingFactor, ONE)
             clamped == IF WLt(maxSpeedSq, LengthSq(damped))
                        THEN SetLength(damped, maxSpeed) ELSE damped
         IN  [p EXCEPT !.velocity = clamped,
                       !.position = VAddN(@, clamped),
                       !.rotation = VAdd(@, p.rotVel)]

\* PASS 3 for one body: damping, speed clamp, position update
Integrate(p) ==
    IF IsNaN(p.velocity) THEN [p EXCEPT !.position = NaN3]
    ELSE LET damped  == VScale(p.velocity, dampingFactor, ONE)
             clamped == IF WLt(maxSpeedSq, LengthSq(damped))
                        THEN SetLength(damped, maxSpeed) ELSE damped
         IN  [p EXCEPT !.velocity = clamped,
                       !.position = VAddN(@, clamped)]

\* PASS 3: the bodies i..count
RECURSIVE Pass3(_, _)
Pass3(ps, i) ==
    IF i > Len(ps) THEN ps ELSE Pass3([ps EXCEPT ![i] = Integrate(@)], i + 1)

\* PASS 4, one pair (i, j): the diffusion push
Pass4Pair(st, i, j, force, maxR) ==
    LET p  == st.p[i]
        p2 == st.p[j]
        d  == VSub(p.position, p2.position)
        distSq == LengthSq(d)
        inRange == /\ ~IsNaN(p.position)
                   /\ ~IsNaN(p2.position)
                   /\ WLt(MIN_DIST_SQ, distSq)
                   /\ WLt(distSq, WSq(maxR))
    IN  IF ~inRange THEN st
        ELSE LET dist == Sqrt(distSq)
                 push == Mul(force, ONE - Div(dist, maxR))
                 dv   == NTimes(d, dist, push)
             IN  [st EXCEPT !.p[i].velocity = VAddN(@, dv),
                            !.p[j].velocity = VAddN(@, <<-dv[1], -dv[2], -dv[3]>>),
                            !.pushes = @ + 1]

RECURSIVE Pass4(_, _, _, _, _)
Pass4(st, i, j, force, maxR) ==
    IF i > Len(st.p) THEN st
    ELSE IF j > Len(st.p) THEN Pass4(st, i + 1, i + 2, force, maxR)
    ELSE Pass4(Pass4Pair(st, i, j, force, maxR), i, j + 1, force, maxR)

\* variant of DiffusionGate that never opens
DiffusionGateNever(step, ke) == FALSE

\* PASS 4 gate: only on the final sub-step and only when this sub-step's
\* totalKE is below ENERGY_THRESHOLD
DiffusionGate(step, ke) ==
    step = SUB_STEPS - 1 /\ ke # WNaN /\ WLt(ke, EnergyThresholdW)

\* the end of PASS 3 in the threaded record: every body integrated, and the
\* totalKE of sub-step 0 kept for the history
Integrated(st) ==
    [st EXCEPT !.p = Pass3(@, 1), !.ke0 = IF st.step = 0 THEN st.ke ELSE @,
               !.log = Append(@, [hit |-> st.hit, cached |-> st.cp, fixed |-> st.fixed,
                                  missed |-> st.missed, passes |-> Append(st.passes, "P3")])]

\* PASS 4: behind its gate, the diffusion push on every pair
Diffusion(st) ==
    IF DiffusionGate(st.step, st.ke)
    THEN Pass4([st EXCEPT !.log[Len(st.log)].passes = Append(@, "P4")], 1, 2,
               Mul(ENERGY_THRESHOLD - WToFixed(st.ke), (3 * ONE) \div 1000),
               MulDiv(BOUNDARY_RADIUS, 75, 100))
    ELSE st

\* variant of SubStep that does not clear collidingPairs
SubStepKeepCache(st, c) ==
    Diffusion(Integrated(Pass2([Pass1(Entered([st EXCEPT !.ke = <<0, 0>>, !.hit = {},
                                                         !.fixed = {}, !.missed = {},
                                                         !.passes = << >>], "P1"), 1, c)
                                   EXCEPT !.iter = 1], c)))

\* the body of the sub-step loop: totalKE = 0, collidingPairs.length = 0, Pass 1..4
SubStep(st, c) ==
    Diffusion(Integrated(Pass2([Pass1(Entered([st EXCEPT !.ke = <<0, 0>>, !.cp = << >>,
                                                         !.hit = {}, !.fixed = {}, !.missed = {},
                                                         !.passes = << >>], "P1"), 1, c)
                                   EXCEPT !.iter = 1], c)))

\* the sub-steps st.step..SUB_STEPS - 1
RECURSIVE SubSteps(_, _)
SubSteps(st, c) ==
    IF st.step >= SUB_STEPS THEN st ELSE SubSteps([SubStep(st, c) EXCEPT !.step = @ + 1], c)

\* step(cameraPosition) on the bodies ps with the cache cp left by earlier calls.
\* The record threaded through the loops holds the loop counters step and iter
\* next to the data: p, cp = particles and collidingPairs; ke = totalKE;
\* ke0 = the totalKE of sub-step 0; pushes = the number of Pass-4 pushes applied;
\* hit, fixed, missed, passes, log = the history of the solver that solverLog keeps
Threaded(ps, cp) ==
    [p |-> ps, cp |-> cp, ke |-> <<0, 0>>, ke0 |-> <<0, 0>>, pushes |-> 0,
     step |-> 0, iter |-> 1, hit |-> {}, fixed |-> {}, missed |-> {}, passes |-> << >>,
     log |-> << >>]

StepOf(ps, cp, c) == SubSteps(Threaded(ps, cp), c)

----------------------------------------------------------------------------
(* Inputs: injected body arrays and viewer positions *)

\* number of step() calls explored
MaxCalls == 2

\* k thousandths, in fixed point
Milli(k) == k * (ONE \div 1000)

V3(x, y, z) == <<Milli(x), Milli(y), Milli(z)>>

\* a body as initParticles builds it, at a given position and velocity
Body(pos, vel) ==
    [position |-> pos, velocity |-> vel, rotation |-> Zero3, rotVel |-> V3(10, -10, 5)]

AtRest(pos) == Body(pos, Zero3)

\* viewer positions handed to step(): far outside the boundary, inside the
\* boundary sphere near its edge, and well inside it
CameraFar == V3(0, 0, 100000)

CameraInside == V3(30000, 0, 0)

CameraDeep == V3(0, 12000, 0)

Cameras == {CameraFar, CameraInside, CameraDeep}

Scenarios ==
    { \* two bodies of radius 1, 1.5 apart, head-on at 0.2 each: on an axis and oblique
      [r |-> ONE, ps |-> << Body(V3(750, 0, 0), V3(-200, 0, 0)),
                            Body(V3(-750, 0, 0), V3(200, 0, 0)) >>],
      [r |-> ONE, ps |-> << Body(V3(-450, 0, -600), V3(120, 0, 160)),
                            Body(V3(450, 0, 600), V3(-120, 0, -160)) >>],
      \* one body at BOUNDARY_RADIUS + 5, at rest: on an axis (away from and towards
      \* CameraInside), on a 3-4-5 ray, on a generic ray
      [r |-> DEFAULT_BALL_RADIUS, ps |-> << AtRest(V3(-45000, 0, 0)) >>],
      [r |-> DEFAULT_BALL_RADIUS, ps |-> << AtRest(V3(45000, 0, 0)) >>],
      [r |-> DEFAULT_BALL_RADIUS, ps |-> << AtRest(V3(0, 27000, -36000)) >>],
      [r |-> DEFAULT_BALL_RADIUS, ps |-> << AtRest(<<10000000, 20000000, 39051248>>) >>],
      \* a glancing hit that happens in the second sub-step
      [r |-> DEFAULT_BALL_RADIUS, ps |-> << Body(V3(0, 0, 0), V3(200, 0, 0)),
                                            Body(V3(7200, 0, 0), V3(0, 200, 0)) >>],
      \* bodies at rest: in diffusion range only, in aura range, three in a row, just
      \* inside the diffusion range, and too far apart for any interaction
      [r |-> DEFAULT_BALL_RADIUS, ps |-> << AtRest(V3(-5000, 0, 0)), AtRest(V3(5000, 0, 0)) >>],
      [r |-> DEFAULT_BALL_RADIUS, ps |-> << AtRest(V3(0, -3000, 0)), AtRest(V3(0, 4500, 0)) >>],
      [r |-> DEFAULT_BALL_RADIUS, ps |-> << AtRest(V3(-10000, 0, 0)), AtRest(V3(0, 0, 0)),
                                            AtRest(V3(10000, 0, 0)) >>],
      [r |-> DEFAULT_BALL_RADIUS, ps |-> << AtRest(V3(-14000, 0, -5000)),
                                            AtRest(V3(14000, 0, -5000)) >>],
      [r |-> DEFAULT_BALL_RADIUS, ps |-> << AtRest(V3(-16000, 0, 0)), AtRest(V3(16000, 0, 0)) >>],
      \* two separated bodies closing at full speed
      [r |-> DEFAULT_BALL_RADIUS, ps |-> << Body(V3(-4200, 0, 0), V3(200, 0, 0)),
                                            Body(V3(4200, 0, 0), V3(-200, 0, 0)) >>],
      \* a body drifting outwards just inside the boundary edge
      [r |-> DEFAULT_BALL_RADIUS, ps |-> << Body(V3(-36200, 0, 0), V3(-200, 0, 0)) >>],
      \* a body drifting towards CameraInside from just outside its safe radius,
      \* and a body at rest between CameraInside and the boundary
      [r |-> DEFAULT_BALL_RADIUS, ps |-> << Body(V3(17700, 0, 0), V3(200, 0, 0)) >>],
      [r |-> DEFAULT_BALL_RADIUS, ps |-> << AtRest(V3(36000, 0, 0)) >>],
      \* a body that the forcefield of CameraInside shoves into its neighbour
      [r |-> DEFAULT_BALL_RADIUS, ps |-> << AtRest(V3(20000, 0, 0)), AtRest(V3(12000, 0, 0)) >>] }

\* degenerate inputs: a body exactly at CameraInside with a second one out of its
\* reach, and two coincident bodies
DegenerateScenarios ==
    { [r |-> DEFAULT_BALL_RADIUS, ps |-> << AtRest(V3(30000, 0, 0)), AtRest(V3(0, -20000, 0)) >>],
      [r |-> DEFAULT_BALL_RADIUS, ps |-> << AtRest(V3(1000, 2000, 3000)),
                                            AtRest(V3(1000, 2000, 3000)) >>] }

\* three bodies in a row.  In the first, 1 and 2 are 7.1 apart (inside the aura,
\* not touching) and 2 and 3 overlap at 6.0: resolving (2, 3) in Pass 1 pushes 2
\* into 1 after the pair (1, 2) has been tested.  In the second, 3 lies on the
\* boundary shell, 1 overlaps it at 6.0 and 2 is 7.1 from 1: the boundary puts 3
\* back, so that Pass 2 resolves (1, 3) again and pushes 1 further into 2
ChainScenarios ==
    { [r |-> DEFAULT_BALL_RADIUS, ps |-> << AtRest(V3(0, 0, 0)), AtRest(V3(7100, 0, 0)),
                                            AtRest(V3(13100, 0, 0)) >>],
      [r |-> DEFAULT_BALL_RADIUS, ps |-> << AtRest(V3(-30500, 0, 0)), AtRest(V3(-23400, 0, 0)),
                                            AtRest(V3(-36500, 0, 0)) >>] }

\* the all-zero matrix a fresh instanceMatrix holds at every index; no rotation
\* yields it, which the NaN rotation stands for
Blank == [rotation |-> NaN3, position |-> Zero3]

\* new THREE.InstancedMesh(geometry, material, n).instanceMatrix
FreshBuffer(n) == [matrix |-> [i \in 1..n |-> Blank], needsUpdate |-> FALSE]

\* the effects cycled by the O key, in the order of EFFECT_NAMES
EFFECT_NAMES == <<"Bloom", "Noise", "Vignette", "Shadows", "Environment">>

ALL_EFFECTS_ON == [n \in {EFFECT_NAMES[k] : k \in 1..Len(EFFECT_NAMES)} |-> TRUE]

\* the Canvas camera before any frame: camera={{ position: [0, 20, 90] }}
ViewerStart == V3(0, 20000, 90000)

\* no frame rendered yet
NoFrame == viewer = ViewerStart /\ frames = 0

\* the App as it first renders in high-performance mode under a dark OS theme
AppDefault ==
    /\ isLowPower = FALSE
    /\ isPrimitive = FALSE
    /\ effects = ALL_EFFECTS_ON
    /\ effectIdx = 0
    /\ showEffectsHUD = FALSE
    /\ isDarkMode = TRUE
    /\ themeOverride = FALSE
    /\ mqMatches = TRUE
    /\ mqListening = TRUE
    /\ lastEvent = "none"
    /\ oPresses = 0
    /\ lPressed = FALSE

\* a constructed simulator holding the body array of sc, before any call
Simulator(sc) ==
    /\ BALL_RADIUS = sc.r
    /\ particles = sc.ps
    /\ collidingPairs = << >>
    /\ camera = CameraFar
    /\ calls = 0
    /\ start = sc.ps
    /\ prev = sc.ps
    /\ cameraFixed = TRUE
    /\ totalKE = <<0, 0>>
    /\ diffused = 0
    /\ meshBuf = FreshBuffer(Len(sc.ps))
    /\ primBuf = FreshBuffer(Len(sc.ps))
    /\ updates = 0
    /\ meshRef = FALSE
    /\ primRef = FALSE
    /\ pc = "done"
    /\ countArg = Len(sc.ps)
    /\ attempts = 0
    /\ posDrawn = Zero3
    /\ exhausted = {}
    /\ solverLog = << >>
    /\ applied = << >>

\* the simulator right after its body array was injected
Injected(sc) == Simulator(sc) /\ NoFrame /\ AppDefault

NoTwin == particles2 = << >> /\ collidingPairs2 = << >> /\ stale = << >>

Init == \E sc \in Scenarios \cup DegenerateScenarios : Injected(sc) /\ NoTwin

InitRegular == \E sc \in Scenarios : Injected(sc) /\ NoTwin

\* what a call leaves behind, r being the record at the end of its sub-step loop
Leaves(r) ==
    /\ particles' = r.p
    /\ collidingPairs' = r.cp
    /\ totalKE' = r.ke0
    /\ diffused' = r.pushes
    /\ solverLog' = r.log

\* one call physics.step(c)
Step(c) ==
    /\ calls < MaxCalls
    /\ Leaves(StepOf(particles, collidingPairs, c))
    /\ camera' = c
    /\ calls' = calls + 1
    /\ prev' = particles
    /\ cameraFixed' = (cameraFixed /\ (calls = 0 \/ c = camera))
    /\ UNCHANGED <<BALL_RADIUS, start, particles2, collidingPairs2, stale, renderVars,
                   ctorVars, frameVars, appVars, applied>>

Next == \E c \in Cameras : Step(c)

Spec == Init /\ [][Next]_vars

\* the same calls, from the scenarios with touching pairs and from the chains
InitSolver == \E sc \in Scenarios \cup ChainScenarios : Injected(sc) /\ NoTwin

SpecSolver == InitSolver /\ [][Next]_vars

SpecRegular == InitRegular /\ [][Next]_vars

(* Twin runs: a second simulator is given the same body array; its cache may
   still hold the pairs of an earlier run *)

StaleCaches(n) == IF n >= 2 THEN {<< >>, << <<1, 2>> >>} ELSE {<< >>}

InitTwin ==
    \E sc \in Scenarios \cup DegenerateScenarios :
        /\ Injected(sc)
        /\ particles2 = sc.ps
        /\ collidingPairs2 \in StaleCaches(Len(sc.ps))
        /\ stale = collidingPairs2

\* what a call leaves behind in the second simulator
Leaves2(r) == particles2' = r.p /\ collidingPairs2' = r.cp

\* physics.step(c) on both simulators
TwinStep(c) ==
    /\ calls < MaxCalls
    /\ Leaves(StepOf(particles, collidingPairs, c))
    /\ camera' = c
    /\ calls' = calls + 1
    /\ prev' = particles
    /\ cameraFixed' = (cameraFixed /\ (calls = 0 \/ c = camera))
    /\ Leaves2(StepOf(particles2, collidingPairs2, c))
    /\ UNCHANGED <<BALL_RADIUS, start, stale, renderVars, ctorVars, frameVars, appVars,
                   applied>>

NextTwin == \E c \in Cameras : TwinStep(c)

SpecTwin == InitTwin /\ [][NextTwin]_vars

----------------------------------------------------------------------------
(* PhysicsSimulator.updateInstances *)

\* number of updateInstances() calls explored
MaxUpdates == 2

\* Matrix4.makeRotationFromEuler(euler): the rotation part is set from the Euler
\* angles and the translation column is zeroed.  A matrix is kept as the Euler
\* angles and the translation that determine it
MakeRotationFromEuler(m, euler) == [rotation |-> euler, position |-> Zero3]

\* Matrix4.setPosition(v)
SetPosition(m, v) == [m EXCEPT !.position = v]

\* InstancedMesh.setMatrixAt(i, matrix): copies the matrix into slot i
SetMatrixAt(buf, i, matrix) == [buf EXCEPT !.matrix[i] = matrix]

\* variant of WriteMatrix that writes the wireframe buffer only when the textured
\* one is absent
WriteMatrixElse(st, i, meshCur, primCur) ==
    [st EXCEPT !.mesh = IF meshCur THEN SetMatrixAt(@, i, st.tempMatrix) ELSE @,
               !.prim = IF ~meshCur /\ primCur THEN SetMatrixAt(@, i, st.tempMatrix) ELSE @]

\* the two guarded setMatrixAt(i, tempMatrix) calls of the loop body
WriteMatrix(st, i, meshCur, primCur) ==
    [st EXCEPT !.mesh = IF meshCur THEN SetMatrixAt(@, i, st.tempMatrix) ELSE @,
               !.prim = IF primCur THEN SetMatrixAt(@, i, st.tempMatrix) ELSE @]

\* tempMatrix.makeRotationFromEuler(p.rotation); tempMatrix.setPosition(p.position)
Compose(st, i) ==
    [st EXCEPT !.tempMatrix = SetPosition(MakeRotationFromEuler(@, st.p[i].rotation),
                                          st.p[i].position)]

\* variant of Spin that also moves the body along its velocity
SpinAndMove(st, i) ==
    [st EXCEPT !.p[i].rotation = VAdd(@, st.p[i].rotVel),
               !.p[i].position = VAddN(@, st.p[i].velocity)]

\* p.rotation.x += p.rotVel.x, and y and z alike
Spin(st, i) == [st EXCEPT !.p[i].rotation = VAdd(@, st.p[i].rotVel)]

\* the loop of updateInstances over the bodies i..count
RECURSIVE UpdateLoop(_, _, _, _)
UpdateLoop(st, i, meshCur, primCur) ==
    IF i > Len(st.p) THEN st
    ELSE UpdateLoop(WriteMatrix(Compose(Spin(st, i), i), i, meshCur, primCur),
                    i + 1, meshCur, primCur)

\* instanceMatrix.needsUpdate = true on each buffer that is present
Flagged(st, meshCur, primCur) ==
    [st EXCEPT !.mesh.needsUpdate = meshCur \/ @, !.prim.needsUpdate = primCur \/ @]

\* updateInstances(meshRef, primRef, tempMatrix) on the bodies ps and the buffers
\* mesh and prim; meshCur, primCur: whether meshRef.current, primRef.current are set
UpdateInstancesOf(ps, mesh, prim, meshCur, primCur) ==
    Flagged(UpdateLoop([p |-> ps, mesh |-> mesh, prim |-> prim, tempMatrix |-> Blank],
                       1, meshCur, primCur), meshCur, primCur)

\* what an updateInstances call leaves behind
Synced(r) == particles' = r.p /\ meshBuf' = r.mesh /\ primBuf' = r.prim

\* one call physics.updateInstances(meshRef, primRef, tempMatrix)
UpdateInstances(meshCur, primCur) ==
    /\ updates < MaxUpdates
    /\ Synced(UpdateInstancesOf(particles, meshBuf, primBuf, meshCur, primCur))
    /\ updates' = updates + 1
    /\ meshRef' = meshCur
    /\ primRef' = primCur
    /\ UNCHANGED <<BALL_RADIUS, collidingPairs, camera, calls, start, prev, cameraFixed,
                   totalKE, diffused, particles2, collidingPairs2, stale, ctorVars, frameVars,
                   appVars, solverLog,
                   applied>>

\* rotation and rotVel as initParticles draws them: different from body to body
Spun(ps) ==
    [i \in 1..Len(ps) |-> [ps[i] EXCEPT !.rotation = V3(100 * i, 1000, 3000 - 500 * i),
                                        !.rotVel = V3(10 - i, -10, 3 * i)]]

\* the injected arrays of two or more bodies, where the order of the entries shows
InitInstances ==
    \E sc \in {x \in Scenarios \cup DegenerateScenarios : Len(x.ps) >= 2} :
        Injected([sc EXCEPT !.ps = Spun(@)]) /\ NoTwin

NextInstances ==
    \/ \E c \in Cameras : Step(c)
    \/ \E meshCur, primCur \in BOOLEAN : UpdateInstances(meshCur, primCur)

SpecInstances == InitInstances /\ [][NextInstances]_vars

----------------------------------------------------------------------------
(* Basketballs: the two instanced meshes and the useFrame callback *)

\* number of rendered frames explored
MaxFrames == 3

\* Object3D.worldToLocal of the instanced mesh, whose only transform is
\* rotation={[-Math.PI / 2, 0, 0]}: the inverse rotation, a quarter turn about x
WorldToLocal(v) == <<v[1], -v[3], v[2]>>

\* camera positions OrbitControls can reach (minDistance 35, maxDistance 63)
Viewers == {V3(35000, 0, 0), V3(0, 0, 40000)}

\* the end of the callback: the step's results with the rotations and buffers
\* that updateInstances leaves
Framed(r, u) ==
    [p |-> u.p, cp |-> r.cp, ke0 |-> r.ke0, pushes |-> r.pushes, log |-> r.log,
     mesh |-> u.mesh, prim |-> u.prim]

\* physics.updateInstances(meshRef, primRef, tempMatrix) on the stepped bodies
Shown(r, mesh, prim, meshCur, primCur) ==
    Framed(r, UpdateInstancesOf(r.p, mesh, prim, meshCur, primCur))

\* the end of a callback that stepped after it updated the instances
FramedLate(r, u) ==
    [p |-> r.p, cp |-> r.cp, ke0 |-> r.ke0, pushes |-> r.pushes, log |-> r.log,
     mesh |-> u.mesh, prim |-> u.prim]

SteppedLate(u, cp, c) == FramedLate(StepOf(u.p, cp, c), u)

\* variant of FrameOf that calls updateInstances before step
FrameOfUpdateFirst(ps, cp, mesh, prim, c, meshCur, primCur) ==
    SteppedLate(UpdateInstancesOf(ps, mesh, prim, meshCur, primCur), cp, c)

\* physics.step(localCamPos) and then physics.updateInstances(...)
FrameOf(ps, cp, mesh, prim, c, meshCur, primCur) ==
    Shown(StepOf(ps, cp, c), mesh, prim, meshCur, primCur)

\* what a frame leaves behind
Presented(r) ==
    /\ particles' = r.p
    /\ collidingPairs' = r.cp
    /\ totalKE' = r.ke0
    /\ diffused' = r.pushes
    /\ solverLog' = r.log
    /\ meshBuf' = r.mesh
    /\ primBuf' = r.prim

\* React commits the fragment of the two instancedMesh elements: both refs are
\* attached in the same commit
Mount ==
    /\ ~meshRef /\ ~primRef
    /\ meshRef' = TRUE
    /\ primRef' = TRUE
    /\ UNCHANGED <<BALL_RADIUS, particles, collidingPairs, camera, calls, start, prev,
                   cameraFixed, totalKE, diffused, particles2, collidingPairs2, stale,
                   meshBuf, primBuf, updates, ctorVars, frameVars, appVars, solverLog,
                   applied>>

\* the fragment is removed (the scene suspends or unmounts): both refs are detached
Unmount ==
    /\ meshRef /\ primRef
    /\ meshRef' = FALSE
    /\ primRef' = FALSE
    /\ UNCHANGED <<BALL_RADIUS, particles, collidingPairs, camera, calls, start, prev,
                   cameraFixed, totalKE, diffused, particles2, collidingPairs2, stale,
                   meshBuf, primBuf, updates, ctorVars, frameVars, appVars, solverLog,
                   applied>>

\* OrbitControls moves the camera
Orbit(v) ==
    /\ v # viewer
    /\ viewer' = v
    /\ UNCHANGED <<BALL_RADIUS, particles, collidingPairs, camera, calls, start, prev,
                   cameraFixed, totalKE, diffused, particles2, collidingPairs2, stale,
                   renderVars, ctorVars, frames, appVars, solverLog,
                   applied>>

\* the useFrame callback of one rendered frame
Frame ==
    /\ frames < MaxFrames
    /\ meshRef => calls < MaxCalls /\ updates < MaxUpdates
    /\ frames' = frames + 1
    /\ IF ~meshRef /\ ~primRef
       THEN \* return
            UNCHANGED <<particles, collidingPairs, totalKE, diffused, meshBuf, primBuf,
                        camera, calls, updates, prev, cameraFixed, solverLog>>
       ELSE IF ~meshRef
       THEN \* meshRef.current.worldToLocal throws a TypeError: nothing further runs
            UNCHANGED <<particles, collidingPairs, totalKE, diffused, meshBuf, primBuf,
                        camera, calls, updates, prev, cameraFixed, solverLog>>
       ELSE /\ Presented(FrameOf(particles, collidingPairs, meshBuf, primBuf,
                                  WorldToLocal(viewer), meshRef, primRef))
            /\ camera' = WorldToLocal(viewer)
            /\ calls' = calls + 1
            /\ updates' = updates + 1
            /\ prev' = particles
            /\ cameraFixed' = (cameraFixed /\ (calls = 0 \/ WorldToLocal(viewer) = camera))
    /\ UNCHANGED <<BALL_RADIUS, start, particles2, collidingPairs2, stale, meshRef, primRef,
                   ctorVars, viewer, appVars, applied>>

InitFrames ==
    \E sc \in Scenarios \cup DegenerateScenarios : Injected([sc EXCEPT !.ps = Spun(@)]) /\ NoTwin

NextFrames ==
    \/ Mount
    \/ Unmount
    \/ \E v \in Viewers : Orbit(v)
    \/ Frame

SpecFrames == InitFrames /\ [][NextFrames]_vars

----------------------------------------------------------------------------
(* App: keyboard shortcuts, the effects cycle and the theme *)

\* number of O presses explored: one full cycle and the start of the next
MaxOPresses == 7

\* the simulator, the meshes and the camera, which the App's handlers leave to the
\* Basketballs component
sceneVars ==
    <<BALL_RADIUS, particles, collidingPairs, camera, calls, start, prev, cameraFixed,
      totalKE, diffused, particles2, collidingPairs2, stale, renderVars, ctorVars, frameVars,
      solverLog, applied>>

\* the theme effect run for a value of themeOverride: whether it leaves the
\* media-query change handler registered
ThemeEffectUnguarded(override) == TRUE

\* useEffect(() => { if (themeOverride) return; mq.addEventListener(...) }, [themeOverride])
ThemeEffect(override) == ~override

\* the updater of setEffectIdx on an O press: the next index, or 0 when the cycle wraps
NextEffectIdx(idx) == IF idx + 1 > Len(EFFECT_NAMES) THEN 0 ELSE idx + 1

\* the effects after an O press at index idx
NextEffects(cur, idx) ==
    IF idx + 1 > Len(EFFECT_NAMES) THEN ALL_EFFECTS_ON
    ELSE [cur EXCEPT ![EFFECT_NAMES[idx + 1]] = FALSE]

\* keydown "l": setIsDarkMode(v => !v); setThemeOverride(true); the re-render runs
\* the theme effect again when themeOverride changed
PressL ==
    /\ isDarkMode' = ~isDarkMode
    /\ themeOverride' = TRUE
    /\ mqListening' = IF themeOverride THEN mqListening ELSE ThemeEffect(TRUE)
    /\ lastEvent' = "L"
    /\ lPressed' = TRUE
    /\ UNCHANGED <<isLowPower, isPrimitive, effects, effectIdx, showEffectsHUD, mqMatches,
                   oPresses, sceneVars>>

\* keydown "m": setIsLowPower(v => !v)
PressM ==
    /\ isLowPower' = ~isLowPower
    /\ lastEvent' = "M"
    /\ UNCHANGED <<isPrimitive, effects, effectIdx, showEffectsHUD, isDarkMode, themeOverride,
                   mqMatches, mqListening, oPresses, lPressed, sceneVars>>

\* keydown "p": setIsPrimitive(v => !v)
PressP ==
    /\ isPrimitive' = ~isPrimitive
    /\ lastEvent' = "P"
    /\ UNCHANGED <<isLowPower, effects, effectIdx, showEffectsHUD, isDarkMode, themeOverride,
                   mqMatches, mqListening, oPresses, lPressed, sceneVars>>

\* keydown "o": setShowEffectsHUD(true), then the setEffectIdx updater, which
\* disables the next effect or, past the last one, re-enables all and hides the HUD
PressO ==
    /\ oPresses < MaxOPresses
    /\ oPresses' = oPresses + 1
    /\ effectIdx' = NextEffectIdx(effectIdx)
    /\ effects' = NextEffects(effects, effectIdx)
    /\ showEffectsHUD' = (effectIdx + 1 <= Len(EFFECT_NAMES))
    /\ lastEvent' = "O"
    /\ UNCHANGED <<isLowPower, isPrimitive, isDarkMode, themeOverride, mqMatches, mqListening,
                   lPressed, sceneVars>>

\* the OS colour scheme changes: the change event reaches the handler
\* (e) => setIsDarkMode(e.matches) if it is registered
SchemeChange ==
    /\ mqMatches' = ~mqMatches
    /\ isDarkMode' = IF mqListening THEN mqMatches' ELSE isDarkMode
    /\ lastEvent' = "scheme"
    /\ UNCHANGED <<isLowPower, isPrimitive, effects, effectIdx, showEffectsHUD, themeOverride,
                   mqListening, oPresses, lPressed, sceneVars>>

\* the App's first render and mount: isLowPower from the URL and WebGL support,
\* isPrimitive from isLowPower, isDarkMode from the OS colour scheme
InitApp ==
    \E low, dark \in BOOLEAN :
        /\ Simulator(CHOOSE sc \in Scenarios : Len(sc.ps) = 3)
        /\ NoTwin
        /\ NoFrame
        /\ isLowPower = low
        /\ isPrimitive = low
        /\ effects = ALL_EFFECTS_ON
        /\ effectIdx = 0
        /\ showEffectsHUD = FALSE
        /\ isDarkMode = dark
        /\ themeOverride = FALSE
        /\ mqMatches = dark
        /\ mqListening = ThemeEffect(FALSE)
        /\ lastEvent = "none"
        /\ oPresses = 0
        /\ lPressed = FALSE

NextApp ==
    \/ PressL
    \/ PressM
    \/ PressP
    \/ PressO
    \/ SchemeChange

SpecApp == InitApp /\ [][NextApp]_vars

----------------------------------------------------------------------------
(* PhysicsSimulator.constructor and initParticles *)

\* largest count argument explored
MaxCount == 2

\* the attempt cap of the sampling loop
AttemptCap == 200

\* minDist = BALL_RADIUS * 2.1 and its square
InitMinDist == MulDiv(BALL_RADIUS, 21, 10)

InitMinDistSq == WSq(InitMinDist)

\* ballRadius arguments: the default and one so large that every candidate
\* overlaps every body
Radii == {DEFAULT_BALL_RADIUS, BOUNDARY_RADIUS}

\* half-width of the sampling cube: (Math.random() - 0.5) * BOUNDARY_RADIUS * 1.5
\* lies in [-HalfWidth, HalfWidth)
HalfWidth == MulDiv(BOUNDARY_RADIUS, 75, 100)

\* candidate positions Math.random() can produce: the centre, two points at 7.2
\* and 7.35 (= 2.1 * 3.5) from it, and the corner of the cube
Candidates ==
    {Zero3, V3(7200, 0, 0), V3(7350, 0, 0), <<-HalfWidth, -HalfWidth, -HalfWidth>>}

\* the rotVel initParticles draws
Spins == {V3(10, -10, 5)}

\* variant of Overlaps that tests against the diameter instead of minDist
OverlapsDiameter(ps, cand) ==
    \E i \in 1..Len(ps) : WLt(DistSqOf(ps[i].position, cand), WSq(2 * BALL_RADIUS))

\* this.particles.some(p => p.position.distanceToSquared(pos) < minDistSq)
Overlaps(ps, cand) ==
    \E i \in 1..Len(ps) : WLt(DistSqOf(ps[i].position, cand), InitMinDistSq)

\* variant of NextAttempt that loses the increment
SameAttempt(a) == a

\* ++attempts
NextAttempt(a) == a + 1

\* new PhysicsSimulator(count, ballRadius) up to the call of initParticles
InitConstruct ==
    \E n \in 0..MaxCount, r \in Radii :
        /\ BALL_RADIUS = r
        /\ countArg = n
        /\ particles = << >>
        /\ collidingPairs = << >>
        /\ pc = "for"
        /\ attempts = 0
        /\ posDrawn = Zero3
        /\ exhausted = {}
        /\ camera = CameraFar
        /\ calls = 0
        /\ start = << >>
        /\ prev = << >>
        /\ cameraFixed = TRUE
        /\ totalKE = <<0, 0>>
        /\ diffused = 0
        /\ meshBuf = FreshBuffer(n)
        /\ primBuf = FreshBuffer(n)
        /\ updates = 0
        /\ meshRef = FALSE
        /\ primRef = FALSE
        /\ NoTwin
        /\ NoFrame
        /\ AppDefault
        /\ solverLog = << >>
        /\ applied = << >>

\* the head of the for loop: i < this.count, attempts = 0; or the end of construction
ForLoop ==
    /\ pc = "for"
    /\ IF Len(particles) < countArg
       THEN pc' = "do" /\ attempts' = 0 /\ UNCHANGED <<start, prev>>
       ELSE pc' = "done" /\ start' = particles /\ prev' = particles /\ UNCHANGED attempts
    /\ UNCHANGED <<BALL_RADIUS, particles, collidingPairs, camera, calls, cameraFixed, totalKE,
                   diffused, particles2, collidingPairs2, stale, renderVars, countArg, posDrawn,
                   exhausted, frameVars, appVars, solverLog,
                   applied>>

\* one pass through the do-while body with the candidate cand drawn: the cap, then
\* the overlap test, then (on leaving the loop) the push of the new body
Draw(cand, rot, spin) ==
    /\ pc = "do"
    /\ posDrawn' = cand
    /\ attempts' = NextAttempt(attempts)
    /\ IF attempts' > AttemptCap \/ ~Overlaps(particles, cand)
       THEN /\ particles' = Append(particles, [position |-> cand, velocity |-> Zero3,
                                                rotation |-> rot, rotVel |-> spin])
            /\ exhausted' = IF attempts' > AttemptCap
                             THEN exhausted \cup {Len(particles) + 1} ELSE exhausted
            /\ pc' = "for"
       ELSE UNCHANGED <<particles, exhausted, pc>>
    /\ UNCHANGED <<BALL_RADIUS, collidingPairs, camera, calls, start, prev, cameraFixed,
                   totalKE, diffused, particles2, collidingPairs2, stale, renderVars, countArg,
                   frameVars, appVars, solverLog,
                   applied>>

NextConstruct ==
    \/ ForLoop
    \/ \E cand \in Candidates, spin \in Spins : Draw(cand, V3(1000, 2000, 3000), spin)

SpecConstruct == InitConstruct /\ [][NextConstruct]_vars

----------------------------------------------------------------------------
(* The operations of the passes, one at a time: the pair branch of Pass 1, the
   resolution of the cached pairs of Pass 2, the push of Pass 4, the boundary
   containment and the camera forcefield, each applied to a pair of bodies drawn
   from a grid of separations and velocities *)

\* number of operations applied in a row
MaxOps == 1

\* directions of the separation axis, in thousandths: an axis and a 3-4-5 ray
PassAxes == {<<1000, 0, 0>>, <<600, 0, 800>>}

\* n * s for a direction n in thousandths
Out(n, s) == <<MulDiv(n[1], s, 1000), MulDiv(n[2], s, 1000), MulDiv(n[3], s, 1000)>>

\* MIN_DIST of the default radius
DefaultMinDist == 2 * DEFAULT_BALL_RADIUS + (5 * ONE) \div 100

\* separations of the pair: coincident (0, 0.0005), the floor 0.001, touching
\* (1, 6, just below MIN_DIST), MIN_DIST itself, in the aura (8), in diffusion
\* range only (10)
Separations ==
    {0, 500, ONE \div 1000, ONE, 6 * ONE, DefaultMinDist - 5, DefaultMinDist, 8 * ONE, 10 * ONE}

\* velocities <<a1, b1, a2, b2>>: body k moves at ak along the axis and bk across
\* it; the pair is at rest, closing fast, closing by 0.000005, separating, and
\* moving together along the axis
Motions ==
    { <<0, 0, 0, 0>>,
      <<-200000, 100000, 200000, 0>>,
      <<-5, 0, 0, 0>>,
      <<100000, 100000, -100000, 0>>,
      <<200000, 0, 200000, 0>> }

Vel(n, a, b) == VAdd(Out(n, a), <<0, b, 0>>)

\* body 1 at the origin or 37 out along n (beyond the boundary edge), body 2 at
\* the separation d from it towards the origin side
PassInputs ==
    { [r |-> DEFAULT_BALL_RADIUS,
       ps |-> << Body(Out(n, IF far THEN 37 * ONE ELSE 0), Vel(n, m[1], m[2])),
                 Body(VSub(Out(n, IF far THEN 37 * ONE ELSE 0), Out(n, d)),
                      Vel(n, m[3], m[4])) >>] :
      n \in PassAxes, far \in BOOLEAN, d \in Separations, m \in Motions }

\* viewers: 5 from the origin, and 7 from the point 37 out on the x axis
PassViewers == {V3(3000, 4000, 0), CameraInside}

\* the bodies of an input, with the cache empty or holding the pair
InitPasses ==
    \E sc \in PassInputs, cached \in BOOLEAN :
        /\ BALL_RADIUS = sc.r
        /\ particles = sc.ps
        /\ collidingPairs = IF cached THEN << <<1, 2>> >> ELSE << >>
        /\ camera = CameraFar
        /\ calls = 0
        /\ start = sc.ps
        /\ prev = sc.ps
        /\ cameraFixed = TRUE
        /\ totalKE = <<0, 0>>
        /\ diffused = 0
        /\ meshBuf = FreshBuffer(Len(sc.ps))
        /\ primBuf = FreshBuffer(Len(sc.ps))
        /\ updates = 0
        /\ meshRef = FALSE
        /\ primRef = FALSE
        /\ pc = "done"
        /\ countArg = Len(sc.ps)
        /\ attempts = 0
        /\ posDrawn = Zero3
        /\ exhausted = {}
        /\ solverLog = << >>
        /\ applied = << >>
        /\ NoTwin
        /\ NoFrame
        /\ AppDefault

\* the operation kind on (i, j) leaves the bodies ps
Applies(kind, i, j, ps) ==
    /\ Len(applied) < MaxOps
    /\ particles' = ps
    /\ prev' = particles
    /\ applied' = Append(applied, [kind |-> kind, i |-> i, j |-> j, cache |-> collidingPairs])
    /\ UNCHANGED <<BALL_RADIUS, calls, start, cameraFixed, totalKE, diffused, particles2,
                   collidingPairs2, stale, renderVars, ctorVars, frameVars, appVars, solverLog>>

\* what Pass 1 does for the pair (i, j) when the cache is still empty
PairPass1Of(ps, i, j) == Pass1Pair(Threaded(ps, << >>), i, j)

\* Pass 1 reaches the pair (i, j)
PairPass1(i, j) ==
    /\ i < j
    /\ Applies("pass1", i, j, PairPass1Of(particles, i, j).p)
    /\ collidingPairs' = PairPass1Of(particles, i, j).cp
    /\ UNCHANGED camera

\* one Pass-2 iteration resolves the cached pairs
PairPass2 ==
    /\ collidingPairs # << >>
    /\ Applies("pass2", collidingPairs[1][1], collidingPairs[1][2],
               Pass2Pairs(Threaded(particles, collidingPairs), 1).p)
    /\ UNCHANGED <<collidingPairs, camera>>

\* force of Pass 4 when the gate reads totalKE = 0
IdleForce == Mul(ENERGY_THRESHOLD, (3 * ONE) \div 1000)

\* Pass 4 reaches the pair (i, j)
PairPass4(i, j) ==
    /\ i < j
    /\ Applies("pass4", i, j,
               Pass4Pair(Threaded(particles, collidingPairs), i, j, IdleForce,
                         MulDiv(BOUNDARY_RADIUS, 75, 100)).p)
    /\ UNCHANGED <<collidingPairs, camera>>

\* the boundary containment reaches body i
BoundaryOp(i) ==
    /\ Applies("boundary", i, i, [particles EXCEPT ![i] = Boundary(@)])
    /\ UNCHANGED <<collidingPairs, camera>>

\* the camera forcefield reaches body i, the viewer being at c
ForcefieldOp(i, c) ==
    /\ Applies("forcefield", i, i, [particles EXCEPT ![i] = CameraForcefield(@, c)])
    /\ camera' = c
    /\ UNCHANGED collidingPairs

NextPasses ==
    \/ \E i, j \in 1..Len(particles) : PairPass1(i, j)
    \/ PairPass2
    \/ \E i, j \in 1..Len(particles) : PairPass4(i, j)
    \/ \E i \in 1..Len(particles) : BoundaryOp(i)
    \/ \E i \in 1..Len(particles), c \in PassViewers : ForcefieldOp(i, c)

SpecPasses == InitPasses /\ [][NextPasses]_vars

----------------------------------------------------------------------------
(* Measures used by the properties *)

Bodies == 1..Len(particles)

\* a "small numerical epsilon": a thousandth of a unit
Epsilon == ONE \div 1000

DistSq(u, v) == LengthSq(VSub(u, v))

Finite(p) == ~IsNaN(p.position) /\ ~IsNaN(p.velocity)

\* |velocity| <= maxSpeed; false of a NaN velocity, as every comparison with NaN is
WithinMaxSpeed(p) == ~IsNaN(p.velocity) /\ WLe(LengthSq(p.velocity), maxSpeedSq)

\* sum over the pairs i < j of max(0, MIN_DIST - distance)
RECURSIVE OverlapFrom(_, _, _)
OverlapFrom(ps, i, j) ==
    IF i > Len(ps) THEN 0
    ELSE IF j > Len(ps) THEN OverlapFrom(ps, i + 1, i + 2)
    ELSE Max(0, MIN_DIST - Sqrt(DistSq(ps[i].position, ps[j].position)))
         + OverlapFrom(ps, i, j + 1)

TotalOverlap(ps) == OverlapFrom(ps, 1, 2)

Separated(ps) ==
    \A i, j \in 1..Len(ps) :
        i < j => WLe(MIN_DIST_SQ, DistSq(ps[i].position, ps[j].position))

\* the viewer c is farther than cameraSafeRadius from every body of ps
ViewerDistant(ps, c) ==
    \A i \in 1..Len(ps) : WLt(cameraSafeRadiusSq, DistSq(ps[i].position, c))

----------------------------------------------------------------------------
(* Properties *)

\* C1: after any step() call every body's speed is at most maxSpeed.
\* Refuted: Pass 4 adds its pushes after the clamp of Pass 3.
C1_SpeedBound ==
    calls > 0 => \A i \in Bodies : WithinMaxSpeed(particles[i])

\* C2: a step() call applies diffusion pushes only if the kinetic energy
\* accumulated in Pass 1 of its sub-step 0 is below 0.05.
\* Refuted: totalKE is reset at the top of every sub-step, so the gate of the
\* final sub-step always sees 0.
C2_DiffusionGatedByEnergy ==
    (calls > 0 /\ diffused > 0) => (totalKE # WNaN /\ WLt(totalKE, EnergyThresholdW))

\* C3: after any step() call every body is within boundaryEdge + epsilon of the
\* origin, wherever the viewer is.
\* Refuted: integration follows the last boundary pass, and the forcefield runs
\* after the boundary clamp in every pass.
C3_BoundaryContainment ==
    calls > 0 =>
        \A i \in Bodies :
            /\ ~IsNaN(particles[i].position)
            /\ WLe(LengthSq(particles[i].position), WSq(edgeDist + Epsilon))

\* C4: after any step() call made with a fixed viewer position every body is at
\* least cameraSafeRadius - epsilon from that position.
\* Refuted: integration follows the last forcefield pass.
C4_CameraExclusion ==
    (calls > 0 /\ cameraFixed) =>
        \A i \in Bodies :
            /\ ~IsNaN(particles[i].position)
            /\ WLe(WSq(CAMERA_SAFE_RADIUS - Epsilon), DistSq(particles[i].position, camera))

\* C5: after any step() call every position and velocity is finite.
\* Refuted: a body exactly at the viewer position is divided by distToCam = 0.
C5_AlwaysFinite ==
    calls > 0 => \A i \in Bodies : Finite(particles[i])

\* C6: two simulators given the same body array and the same viewer positions
\* hold identical positions and velocities after every step() call, whatever the
\* pair cache of either held before: step() reads no state but bodies and viewer.
C6_Determinism ==
    \A i \in Bodies :
        /\ particles2[i].position = particles[i].position
        /\ particles2[i].velocity = particles[i].velocity

\* two calls were made by simulators whose caches differed at the start, and the
\* last call resolved a hard collision
C6_Witness ==
    /\ calls >= 2
    /\ stale # << >>
    /\ collidingPairs # << >>
    /\ C6_Determinism

\* C7: from a separated start with a stationary viewer farther than
\* cameraSafeRadius from every body, the total overlap after a call is not
\* larger than the total overlap after the call before it.
\* Refuted: bodies that are still apart after one call are moved into each
\* other by the integration of the next.
C7_OverlapNonIncreasing ==
    (/\ calls >= 2
     /\ cameraFixed
     /\ Separated(start)
     /\ ViewerDistant(start, camera))
        => TotalOverlap(particles) <= TotalOverlap(prev) + Epsilon

\* the call started from ps with every body at rest, inside the boundary and
\* farther than cameraSafeRadius from the viewer c, and with at least one pair
\* strictly between minSeparation and 0.75 * BOUNDARY_RADIUS apart
IdlePre(ps, c) ==
    /\ \A i \in 1..Len(ps) :
           /\ ps[i].velocity = Zero3
           /\ WLe(LengthSq(ps[i].position), edgeDistSq)
    /\ ViewerDistant(ps, c)
    /\ \E i, j \in 1..Len(ps) :
           /\ i < j
           /\ WLt(MIN_DIST_SQ, DistSq(ps[i].position, ps[j].position))
           /\ WLt(DistSq(ps[i].position, ps[j].position), WSq(MulDiv(BOUNDARY_RADIUS, 75, 100)))

\* C8: a step() call on bodies at rest, inside the boundary, farther than
\* cameraSafeRadius from the viewer, with a pair strictly between minSeparation
\* and 30 apart, leaves at least one body with nonzero velocity.
C8_IdleDiffusionActivates ==
    (calls = 1 /\ IdlePre(prev, camera))
        => \E i \in Bodies : particles[i].velocity # Zero3

\* such a call was made on a pair beyond aura range, so that only Pass 4 can
\* have moved it
C8_Witness ==
    /\ calls = 1
    /\ IdlePre(prev, camera)
    /\ \A i, j \in 1..Len(prev) :
           i < j => WLe(AURA_RADIUS_SQ, DistSq(prev[i].position, prev[j].position))
    /\ diffused > 0
    /\ \E i \in Bodies : particles[i].velocity # Zero3

\* v . d for fixed-point vectors
Along(v, d) == NDot(v, d, ONE)

\* the viewer c is out of reach of every body of ps for a whole call: farther
\* than cameraSafeRadius plus minSeparation
ViewerFar(ps, c) ==
    \A i \in 1..Len(ps) :
        WLt(WSq(CAMERA_SAFE_RADIUS + MIN_DIST), DistSq(ps[i].position, c))

\* two bodies of radius 1, 1.5 apart, each moving at 0.2 straight at the other
HeadOnPre(ps) ==
    /\ BALL_RADIUS = ONE
    /\ Len(ps) = 2
    /\ DistSq(ps[1].position, ps[2].position) = WSq((15 * ONE) \div 10)
    /\ \A k \in 1..3 :
           /\ 15 * ps[1].velocity[k] = -2 * (ps[1].position[k] - ps[2].position[k])
           /\ ps[2].velocity[k] = -ps[1].velocity[k]

\* C9: two bodies of radius 1, 1.5 apart, head-on at 0.2 each, viewer and
\* boundary far away: after one call they are farther apart than before and
\* each velocity component along the separation axis has changed sign.
C9_HeadOnSeparates ==
    (calls = 1 /\ HeadOnPre(prev) /\ ViewerFar(prev, camera))
        => LET axis == VSub(prev[1].position, prev[2].position)
           IN  /\ WLt(DistSq(prev[1].position, prev[2].position),
                      DistSq(particles[1].position, particles[2].position))
               /\ Along(prev[1].velocity, axis) < 0
               /\ Along(particles[1].velocity, axis) > 0
               /\ Along(prev[2].velocity, axis) > 0
               /\ Along(particles[2].velocity, axis) < 0

\* the head-on call was made and resolved as a hard collision
C9_Witness ==
    /\ calls = 1
    /\ HeadOnPre(prev)
    /\ ViewerFar(prev, camera)
    /\ WLt(DistSq(prev[1].position, prev[2].position),
           DistSq(particles[1].position, particles[2].position))
    /\ Along(particles[1].velocity, VSub(prev[1].position, prev[2].position)) > 0

\* |u|
Dist(u) == Sqrt(LengthSq(u))

\* the point at distance r from the origin on the ray through pos
OnRay(pos, r) == VScale(pos, r, Dist(pos))

\* u and v differ by at most one unit of resolution in every component
Near(u, v) == \A k \in 1..3 : Abs(u[k] - v[k]) <= 1

\* a single body at rest at distance BOUNDARY_RADIUS + 5, the viewer c farther
\* than cameraSafeRadius from where it is and from where the boundary puts it
OutsidePre(ps, c) ==
    /\ Len(ps) = 1
    /\ ps[1].velocity = Zero3
    /\ Abs(Dist(ps[1].position) - (BOUNDARY_RADIUS + 5 * ONE)) <= 1
    /\ WLt(cameraSafeRadiusSq, DistSq(ps[1].position, c))
    /\ WLt(cameraSafeRadiusSq, DistSq(OnRay(ps[1].position, edgeDist), c))

\* C10: a single body at rest at distance BOUNDARY_RADIUS + 5, the viewer
\* farther than cameraSafeRadius from it throughout: after one call it is at
\* distance boundaryEdge on the same ray from the origin, at rest.
C10_ClampedToEdge ==
    (calls = 1 /\ OutsidePre(prev, camera))
        => /\ Abs(Dist(particles[1].position) - edgeDist) <= 1
           /\ Near(particles[1].position, OnRay(prev[1].position, edgeDist))
           /\ particles[1].velocity = Zero3

\* such a call was made from a start that lies on no coordinate axis
C10_Witness ==
    /\ calls = 1
    /\ OutsidePre(prev, camera)
    /\ \A k \in 1..3 : prev[1].position[k] # 0
    /\ Near(particles[1].position, OnRay(prev[1].position, edgeDist))
    /\ particles[1].velocity = Zero3

\* C30: after any step() call every body that was not exactly at the viewer
\* position when the call was made is at least cameraSafeRadius - maxSpeed from
\* the viewer position of that call (to 3 units of the last digit).
\* Refuted: a body at the viewer position becomes NaN and the aura branch of the
\* next sub-step spreads the NaN to the bodies that were elsewhere.
C30_ExclusionToOneMove ==
    calls > 0 =>
        \A i \in Bodies :
            prev[i].position # camera =>
                /\ ~IsNaN(particles[i].position)
                /\ Dist(VSub(particles[i].position, camera))
                      >= CAMERA_SAFE_RADIUS - maxSpeed - 3

----------------------------------------------------------------------------
(* Frame effects of step() and updateInstances() *)

\* the transform of a body: its rotation as Euler angles and its position
TransformOf(p) == [rotation |-> p.rotation, position |-> p.position]

\* C11: a step() call changes only positions and velocities: the body count, the
\* entry at each index (told apart by its spin), BALL_RADIUS (and with it every
\* constant derived from it) and every rotation and rotVel are as before the call
C11_StepFrame ==
    [][calls' = calls + 1 =>
          /\ Len(particles') = Len(particles)
          /\ BALL_RADIUS' = BALL_RADIUS
          /\ \A i \in Bodies : /\ particles'[i].rotation = particles[i].rotation
                                /\ particles'[i].rotVel = particles[i].rotVel]_vars

\* a step() call that moved a body whose rotation updateInstances had advanced
C11_Witness ==
    /\ calls >= 1
    /\ updates >= 1
    /\ Len(particles) >= 2
    /\ particles[1].rotVel # particles[2].rotVel
    /\ \E i \in Bodies : particles[i].position # start[i].position

\* C12: right after an updateInstances call every buffer that is present holds at
\* each index the transform of that body's current position and rotation (so two
\* present buffers agree), and a buffer that is absent is left as it was
C12_BuffersHoldTransforms ==
    [][updates' = updates + 1 =>
          /\ meshRef' => /\ meshBuf'.needsUpdate
                          /\ \A i \in Bodies : meshBuf'.matrix[i] = TransformOf(particles'[i])
          /\ primRef' => /\ primBuf'.needsUpdate
                          /\ \A i \in Bodies : primBuf'.matrix[i] = TransformOf(particles'[i])
          /\ ~meshRef' => meshBuf' = meshBuf
          /\ ~primRef' => primBuf' = primBuf]_vars

\* an updateInstances call with the textured buffer absent and the wireframe one
\* present, after a step() call: the wireframe buffer was written, the other not
C12_Witness ==
    /\ updates = 1
    /\ calls >= 1
    /\ ~meshRef /\ primRef
    /\ meshBuf = FreshBuffer(Len(particles))
    /\ \A i \in Bodies : primBuf.matrix[i] = TransformOf(particles[i])
    /\ particles[1].position # start[1].position

\* u + n * v
VPlusTimes(u, n, v) == <<u[1] + n * v[1], u[2] + n * v[2], u[3] + n * v[3]>>

\* C13: after any interleaving of step() calls with n updateInstances calls each
\* rotation is the initial one plus n times the (unchanged) rotVel, and an
\* updateInstances call changes no position and no velocity
C13_SpinOnly ==
    /\ [](\A i \in Bodies :
            /\ particles[i].rotVel = start[i].rotVel
            /\ particles[i].rotation = VPlusTimes(start[i].rotation, updates, start[i].rotVel))
    /\ [][updates' = updates + 1 =>
            \A i \in Bodies : /\ particles'[i].position = particles[i].position
                                /\ particles'[i].velocity = particles[i].velocity]_vars

\* two updateInstances calls around two step() calls that moved a body in flight
C13_Witness ==
    /\ updates = 2
    /\ calls = 2
    /\ \E i \in Bodies : /\ particles[i].velocity # Zero3
                           /\ ~IsNaN(particles[i].velocity)
                           /\ particles[i].position # start[i].position
                           /\ particles[i].rotation # start[i].rotation

----------------------------------------------------------------------------
(* Construction *)

\* the largest number of steps construction can still take: per body still to be
\* placed the loop head, AttemptCap + 1 draws and the return to the loop head
Remaining ==
    (countArg - Len(particles)) * (AttemptCap + 3)
    + (CASE pc = "for" -> AttemptCap + 2
         [] pc = "do" -> AttemptCap + 1 - attempts
         [] OTHER -> 0)

\* C14: construction terminates whatever is drawn: until it is done a step is
\* possible and every step lowers the bound Remaining >= 0 on the steps left; when
\* done there are exactly count bodies, each with zero velocity; and a draw that
\* exhausts the attempt cap is accepted as the new body
C14_ConstructionTerminates ==
    /\ [](/\ Remaining >= 0
          /\ pc # "done" => ENABLED NextConstruct
          /\ pc = "done" => /\ Len(particles) = countArg
                             /\ \A i \in Bodies : particles[i].velocity = Zero3)
    /\ [][Remaining' < Remaining]_vars
    /\ [][(pc = "do" /\ attempts >= AttemptCap) =>
              /\ pc' = "for"
              /\ Len(particles') = Len(particles) + 1
              /\ particles'[Len(particles')].position = posDrawn']_vars

\* construction ended with two bodies, the second accepted by the attempt cap
\* although it overlaps the first
C14_Witness ==
    /\ pc = "done"
    /\ countArg = 2
    /\ Len(particles) = 2
    /\ 2 \in exhausted
    /\ Overlaps(<<particles[1]>>, particles[2].position)

\* C15: after construction a body whose sampling did not exhaust the attempt cap
\* is at least BALL_RADIUS * 2.1 from every body placed before it
C15_InitialSeparation ==
    pc = "done" =>
        \A j \in Bodies \ exhausted : \A i \in 1..(j - 1) :
            WLe(InitMinDistSq, DistSqOf(particles[i].position, particles[j].position))

\* construction ended with two bodies exactly BALL_RADIUS * 2.1 apart, the second
\* accepted after an overlapping draw
C15_Witness ==
    /\ pc = "done"
    /\ Len(particles) = 2
    /\ exhausted = {}
    /\ attempts >= 2
    /\ DistSqOf(particles[1].position, particles[2].position) = InitMinDistSq

\* C27: during construction no more than AttemptCap candidate positions are
\* drawn for any one body
C27_AtMost200Draws ==
    attempts <= AttemptCap

\* C28: after construction every body is within BOUNDARY_RADIUS of the origin,
\* whatever was drawn
C28_InitialWithinBoundary ==
    pc = "done" =>
        \A i \in Bodies : Dist(particles[i].position) <= BOUNDARY_RADIUS

----------------------------------------------------------------------------
(* The frame callback *)

\* C16: a rendered frame in which an instanced mesh is mounted makes exactly one
\* step() call, with the viewer position brought into the mesh's space, and then
\* exactly one updateInstances() call (the buffers hold the stepped positions); a
\* frame in which neither is mounted makes neither call
C16_FrameStepsThenUpdates ==
    [][frames' = frames + 1 =>
          IF meshRef \/ primRef
          THEN /\ calls' = calls + 1
               /\ updates' = updates + 1
               /\ camera' = WorldToLocal(viewer)
               /\ \A i \in Bodies :
                      /\ particles'[i].position =
                             StepOf(particles, collidingPairs, WorldToLocal(viewer)).p[i].position
                      /\ particles'[i].rotation = VAdd(particles[i].rotation, particles[i].rotVel)
                      /\ meshBuf'.matrix[i] = TransformOf(particles'[i])
                      /\ primBuf'.matrix[i] = TransformOf(particles'[i])
          ELSE /\ calls' = calls
               /\ updates' = updates
               /\ particles' = particles
               /\ meshBuf' = meshBuf
               /\ primBuf' = primBuf]_vars

\* a frame before the meshes were mounted and a frame after, whose step moved a
\* body that the viewer's forcefield reached
C16_Witness ==
    /\ frames = 2
    /\ calls = 1
    /\ updates = 1
    /\ meshRef /\ primRef
    /\ camera = WorldToLocal(viewer)
    /\ \E i \in Bodies : /\ ~IsNaN(particles[i].position)
                           /\ particles[i].position # start[i].position
                           /\ meshBuf.matrix[i] = TransformOf(particles[i])
                           /\ DistSqOf(start[i].position, camera)[1] < cameraSafeRadiusSq[1]

----------------------------------------------------------------------------
(* The App's keys *)

\* the order in which the documentation says the O key disables the effects
DocumentedOrder == <<"Vignette", "Shadows", "Bloom", "Noise", "Environment">>

\* C17: after k presses of O from all effects enabled, exactly the first
\* k mod 6 effects of the order Vignette, Shadows, Bloom, Noise, Environment are
\* disabled (the sixth press re-enables all five and the cycle restarts)
C17_EffectsCycleOrder ==
    \A k \in 1..Len(DocumentedOrder) :
        effects[DocumentedOrder[k]] = (k > oPresses % (Len(DocumentedOrder) + 1))

\* C18: an OS colour-scheme change sets isDarkMode to the new scheme as long as
\* L was never pressed and leaves it alone afterwards; every L press toggles it
C18_ThemeOverride ==
    [][/\ lastEvent' = "scheme" => isDarkMode' = (IF lPressed THEN isDarkMode ELSE mqMatches')
       /\ lastEvent' = "L" => isDarkMode' = ~isDarkMode]_vars

\* after an L press the OS colour scheme changed and the theme did not follow
C18_Witness ==
    /\ lPressed
    /\ lastEvent = "scheme"
    /\ isDarkMode # mqMatches
    /\ ~mqListening

\* the set of the entries of a sequence
Entries(seq) == {seq[k] : k \in 1..Len(seq)}

C20_CacheIsThisSubStep ==
    \A k \in 1..Len(solverLog) :
        /\ Entries(solverLog[k].cached) = solverLog[k].hit
        /\ Cardinality(Entries(solverLog[k].cached)) = Len(solverLog[k].cached)
        /\ \A pr \in Entries(solverLog[k].cached) : pr[1] < pr[2]
        /\ 2 * Len(solverLog[k].cached) <= Len(particles) * (Len(particles) - 1)

\* a call whose first sub-step cached a pair that is no longer touching in the
\* second sub-step, whose cache is then empty
C20_Witness ==
    /\ Len(solverLog) = SUB_STEPS
    /\ solverLog[1].cached # << >>
    /\ solverLog[SUB_STEPS].cached = << >>

\* the passes of a sub-step up to the integration: Pass 1, the Pass-2 iterations, Pass 3
OrderOfPasses == <<"P1">> \o [k \in 1..(SOLVER_ITERATIONS - 1) |-> "P2"] \o <<"P3">>

----------------------------------------------------------------------------
(* The operations of the passes *)

\* the operation applied last
LastOp == applied[Len(applied)]

\* the last operation was of one of the kinds
Did(kinds) == applied # << >> /\ LastOp.kind \in kinds

\* the separation of the pair of the last operation before it, and after it
SepBefore == VSub(prev[LastOp.i].position, prev[LastOp.j].position)

SepAfter == VSub(particles[LastOp.i].position, particles[LastOp.j].position)

\* what the last operation added to the position and to the velocity of body i
Moved(i) == VSub(particles[i].position, prev[i].position)

Kicked(i) == VSub(particles[i].velocity, prev[i].velocity)

\* the vectors u and v agree to tol units in every component
Within(u, v, tol) == \A k \in 1..3 : Abs(u[k] - v[k]) <= tol

\* the last operation was a pair test of Pass 1 or Pass 2 on a pair at a distance
\* d with 0.001 <= d < minSeparation
TouchingBefore ==
    /\ Did({"pass1", "pass2"})
    /\ WLe(CoincidentSq, LengthSq(SepBefore))
    /\ WLt(LengthSq(SepBefore), MIN_DIST_SQ)

\* ... and its hard-collision branch ran: in Pass 1 always; in Pass 2 when the pair
\* is in the cache and d > 0.001
HardBranchRan ==
    /\ TouchingBefore
    /\ \/ LastOp.kind = "pass1"
       \/ /\ <<LastOp.i, LastOp.j>> \in Entries(LastOp.cache)
          /\ WLt(CoincidentSq, LengthSq(SepBefore))

\* The unit vector of the model, d / floor(|d|), is longer than 1 by up to 1 / |d|
\* units: what is measured along it carries that relative error next to the
\* rounding of the components.  The tolerance of a length of up to 2 * MIN_DIST,
\* and of a velocity of up to 4, measured along the axis of a pair at distance d
LengthSlack(d) == 3 + (2 * MIN_DIST) \div d

VelocitySlack(d) == 4 + (4 * ONE) \div d

\* C22: the hard-collision branch on a pair at distance d, 0.001 <= d < minSeparation,
\* moves each body by 0.55 * (minSeparation - d) along the separation axis, away
\* from the other: the distance becomes d + 1.1 * (minSeparation - d) (to the
\* resolution of the model), which is more than minSeparation
C22_OverCorrection ==
    HardBranchRan =>
        /\ Within(Moved(LastOp.i),
                VScale(SepBefore, Mul(MIN_DIST - Dist(SepBefore), (55 * ONE) \div 100),
                       Dist(SepBefore)), 1)
        /\ Within(Moved(LastOp.j),
                VScale(SepBefore, -Mul(MIN_DIST - Dist(SepBefore), (55 * ONE) \div 100),
                       Dist(SepBefore)), 1)
        /\ Abs(Dist(SepAfter) - (Dist(SepBefore)
                                 + Mul(MIN_DIST - Dist(SepBefore), (110 * ONE) \div 100)))
              <= LengthSlack(Dist(SepBefore))
        /\ WLt(MIN_DIST_SQ, LengthSq(SepAfter))

\* a Pass-2 iteration resolved a cached pair 0.000005 short of minSeparation on
\* the oblique axis
C22_Witness ==
    /\ HardBranchRan
    /\ LastOp.kind = "pass2"
    /\ Dist(SepBefore) = MIN_DIST - 5
    /\ SepBefore[3] # 0
    /\ WLt(MIN_DIST_SQ, LengthSq(SepAfter))

\* the velocity of body i of ps relative to body j, along the axis
RelVelAlong(ps, i, j, axis) ==
    NDot(ps[i].velocity, axis, Dist(axis)) - NDot(ps[j].velocity, axis, Dist(axis))

RelBefore == RelVelAlong(prev, LastOp.i, LastOp.j, SepBefore)

RelAfter == RelVelAlong(particles, LastOp.i, LastOp.j, SepBefore)

\* max(0.005 / SUB_STEPS, -relVel * 1.85): twice the impulse, which is what the
\* relative velocity gains
Gain(relVel) ==
    Max(((5 * ONE) \div 1000) \div SUB_STEPS, Mul(-relVel, (185 * ONE) \div 100))

\* C23: after the hard-collision branch the pair is not closing along the
\* separation axis.  A relative velocity >= 0 leaves both velocities as they were;
\* a negative one, however small, gets equal and opposite impulses along the
\* axis that add max(0.005 / SUB_STEPS, -relVel * 1.85) to it, and is positive
\* afterwards, along the old axis and along the new one
C23_NotClosingAfterwards ==
    HardBranchRan =>
        IF RelBefore >= 0
        THEN Kicked(LastOp.i) = Zero3 /\ Kicked(LastOp.j) = Zero3
        ELSE /\ VAdd(Kicked(LastOp.i), Kicked(LastOp.j)) = Zero3
             /\ Within(Kicked(LastOp.i),
                       VScale(SepBefore, Gain(RelBefore) \div 2, Dist(SepBefore)), 1)
             /\ Abs(RelAfter - (RelBefore + Gain(RelBefore))) <= VelocitySlack(Dist(SepBefore))
             /\ RelAfter > 0
             /\ RelVelAlong(particles, LastOp.i, LastOp.j, SepAfter) > 0

\* the branch ran on a pair closing at 0.000005: the floor of the impulse applies
C23_Witness ==
    /\ HardBranchRan
    /\ RelBefore = -5
    /\ RelAfter > ONE \div 1000
    /\ \E k \in 1..Len(applied) : applied[k].kind = "pass2"

\* the component of v along the ray from the point o through the point x, and the
\* rest of v
Radial(v, x, o) == NDot(v, VSub(x, o), Dist(VSub(x, o)))

Tangential(v, x, o) == VSub(v, VScale(VSub(x, o), Radial(v, x, o), Dist(VSub(x, o))))

\* the body the last operation was applied to, before and after it
Was == prev[LastOp.i]

Is == particles[LastOp.i]

\* C24: boundary handling puts a body with |position| > boundaryEdge on the same
\* ray from the origin at distance boundaryEdge; an outward radial velocity v > 0
\* becomes -0.8 * v, any other velocity is unchanged, the tangential velocity is
\* unchanged, and the radial velocity is <= 0 afterwards.  A body with
\* |position| <= boundaryEdge is left as it is
C24_BoundaryHandling ==
    Did({"boundary"}) =>
        IF WLt(edgeDistSq, LengthSq(Was.position))
        THEN /\ Near(Is.position, OnRay(Was.position, edgeDist))
             /\ Abs(Dist(Is.position) - edgeDist) <= 1
             /\ Radial(Is.velocity, Was.position, Zero3) <= 0
             /\ IF Radial(Was.velocity, Was.position, Zero3) > 0
                THEN Abs(Radial(Is.velocity, Was.position, Zero3)
                         + Mul(Radial(Was.velocity, Was.position, Zero3), (8 * ONE) \div 10)) <= 3
                ELSE Is.velocity = Was.velocity
             /\ Within(Tangential(Is.velocity, Was.position, Zero3),
                       Tangential(Was.velocity, Was.position, Zero3), 3)
        ELSE Is = Was

\* boundary handling met a body beyond the edge on the oblique ray that moved
\* outwards and sideways
C24_Witness ==
    /\ Did({"boundary"})
    /\ WLt(edgeDistSq, LengthSq(Was.position))
    /\ Was.position[3] # 0
    /\ Radial(Was.velocity, Was.position, Zero3) > 0
    /\ Tangential(Was.velocity, Was.position, Zero3) # Zero3
    /\ Radial(Is.velocity, Was.position, Zero3) < 0

\* the nudge of the forcefield: 0.05
Nudge == (5 * ONE) \div 100

\* C25: the forcefield puts a body at a distance d, 0 < d < cameraSafeRadius,
\* from the viewer on the same ray from the viewer at distance cameraSafeRadius;
\* its velocity component c away from the viewer becomes -0.5 * c + 0.05 when
\* c < 0 and c + 0.05 otherwise, and is at least 0.05 afterwards (position
\* components to one unit of the resolution, the distance to two, velocity
\* components to three)
C25_ForcefieldEjects ==
    (/\ Did({"forcefield"})
     /\ Was.position # camera
     /\ WLt(DistSqOf(Was.position, camera), cameraSafeRadiusSq))
        => /\ Within(Is.position,
                     VAdd(camera, VScale(VSub(Was.position, camera), CAMERA_SAFE_RADIUS,
                                         Dist(VSub(Was.position, camera)))), 1)
           /\ Abs(Dist(VSub(Is.position, camera)) - CAMERA_SAFE_RADIUS) <= 2
           /\ Abs(Radial(Is.velocity, Was.position, camera)
                  - (IF Radial(Was.velocity, Was.position, camera) < 0
                     THEN Nudge - Radial(Was.velocity, Was.position, camera) \div 2
                     ELSE Nudge + Radial(Was.velocity, Was.position, camera))) <= 3
           /\ Radial(Is.velocity, Was.position, camera) >= Nudge - 3

\* the forcefield met a body on the oblique ray that was moving towards the viewer
C25_Witness ==
    /\ Did({"forcefield"})
    /\ Was.position # camera
    /\ WLt(DistSqOf(Was.position, camera), cameraSafeRadiusSq)
    /\ Radial(Was.velocity, Was.position, camera) < -ONE \div 10
    /\ Radial(Is.velocity, Was.position, camera) > Nudge
    /\ VSub(Was.position, camera)[1] # 0
    /\ VSub(Was.position, camera)[2] # 0

\* C26: a pair whose squared distance is below 0.000001 is skipped by the pair
\* tests of Pass 1, Pass 2 and Pass 4: no position and no velocity changes, and
\* the pair is not recorded as touching
C26_CoincidentSkipped ==
    (Did({"pass1", "pass2", "pass4"}) /\ WLt(LengthSq(SepBefore), CoincidentSq))
        => /\ particles = prev
           /\ IF LastOp.kind = "pass1"
              THEN <<LastOp.i, LastOp.j>> \notin Entries(collidingPairs)
              ELSE collidingPairs = LastOp.cache

\* the pair test met two bodies 0.0005 apart that were closing
C26_Witness ==
    /\ Did({"pass1", "pass2", "pass4"})
    /\ WLt(LengthSq(SepBefore), CoincidentSq)
    /\ SepBefore # Zero3
    /\ RelBefore < 0
    /\ particles = prev

\* C29: a pairwise interaction (hard collision, soft aura push, diffusion push)
\* changes the velocities of the two bodies by opposite vectors and their
\* positions by opposite displacements, and no other body: the sum of the two
\* velocities and the midpoint of the pair are as before
C29_PairwiseOpposite ==
    Did({"pass1", "pass2", "pass4"}) =>
        /\ VAdd(Kicked(LastOp.i), Kicked(LastOp.j)) = Zero3
        /\ VAdd(Moved(LastOp.i), Moved(LastOp.j)) = Zero3
        /\ VAdd(particles[LastOp.i].velocity, particles[LastOp.j].velocity)
              = VAdd(prev[LastOp.i].velocity, prev[LastOp.j].velocity)
        /\ VAdd(particles[LastOp.i].position, particles[LastOp.j].position)
              = VAdd(prev[LastOp.i].position, prev[LastOp.j].position)
        /\ \A k \in Bodies \ {LastOp.i, LastOp.j} : particles[k] = prev[k]

\* a hard collision of Pass 1 moved and kicked both bodies of a pair whose
\* velocities did not sum to zero
C29_Witness ==
    /\ Did({"pass1"})
    /\ Moved(LastOp.i) # Zero3
    /\ Kicked(LastOp.i) # Zero3
    /\ VAdd(prev[LastOp.i].velocity, prev[LastOp.j].velocity) # Zero3

====
